---- MODULE Spec2Model ----
(***************************************************************************)
(* The session relay of git-mcp (api/server.ts, api/utils/sessionStore.ts).*)
(*                                                                         *)
(* One push connection (GET) is opened on instance "A", which becomes the  *)
(* Connection Owner of session "s1".  Relayed calls (POST) arrive on       *)
(* instance "A" or on another instance "B".  The registry and the broker   *)
(* (Redis keys and Redis pub/sub) are shared by both.                      *)
(*                                                                         *)
(* Every action is one stretch of handler code between two suspension      *)
(* points (await, timer, event).  Spec is the program over a healthy       *)
(* broker; SpecFault adds the rejections of broker commands that the code  *)
(* handles in its catch blocks; SpecClose adds the ways a connection ends  *)
(* (a client leaving at any point, the max-duration timer); SpecUnsub adds *)
(* subscriber connections that go away and a second call of the session's  *)
(* unsubscribe function; SpecTime adds the clock and the expiry of keys;   *)
(* SpecPair runs two relayed calls at once.  SpecView is one call of a     *)
(* tool callback wrapped by withViewTracking (src/api/utils/badge.ts).     *)
(* SpecTracker and SpecRelayFault add the rejected commands of the         *)
(* liveness tracker and of the POST handler; SpecStray adds messages of    *)
(* other publishers that are not JSON; SpecDuration counts the seconds a   *)
(* push connection lasts; SpecClients is the module's three clients asked  *)
(* for by operations of one process at the same time.                      *)
(***************************************************************************)
EXTENDS Naturals, Integers, Sequences, FiniteSets, TLC

\* ------------------------------------------------------------------ bounds
MaxReq == 1          \* relayed POSTs in one run
MaxFaults == 2       \* rejected broker commands in one run (SpecFault)

\* Two exchanges are what the statements about concurrent exchanges need
\* (SpecPair); Spec runs the first MaxReq of the requests.
Pair == {1, 2}
Active == 1..MaxReq
Reqs == Active \cup Pair

\* --------------------------------------------------------- program values
RESPONSE_TIMEOUT_MS == 10000   \* the relay's wait for a response
SESSION_TTL == 60 * 30         \* seconds: the expiry of the registry key and of the counter key
MAX_DURATION_S == 59           \* maxDuration; the push connection ends 5 s before it
REPUBLISH_DELAY_MS == 100      \* the owner's re-publish after a publish to 0 receivers

NoSid == ""                    \* searchParams.get("sessionId") gave null
OwnSession == "s1"             \* transport.sessionId of the push connection
SessionIds == {NoSid, OwnSession, "sx"}
Instances == {"A", "B"}

\* Raw POST bodies: a JSON object, the JSON text null, and text that is not JSON.
RawBodies == {"{\"op\":\"ping\"}", "null", "{oops"}

\* What the protocol handler does with a call: writeHead(status).end(body)
\* with a string body, or a thrown Error(message).
HandlerOutcomes ==
    { [kind |-> "return", status |-> 202, body |-> "Accepted"],
      [kind |-> "return", status |-> 400, body |-> "Invalid message"],
      [kind |-> "throw",  status |-> 0,   body |-> "boom"] }
NoOutcome == [kind |-> "none", status |-> 0, body |-> ""]

NoResp == [status |-> 0, body |-> ""]
Resp(s, b) == [status |-> s, body |-> b]

VARIABLES
    \* registry and broker (shared)
    sessionKeys,      \* session ids whose key mcp:session:<id> exists
    subscriberKey,    \* mcp:subscribers:s1 : <<>> when absent, <<n>> when present
    reqSub,           \* instance A is subscribed on requests:s1
    respSub,          \* [r] the relay of r is subscribed on responses:s1:<r>
    respInflight,     \* [r] responses delivered to the relay's connection, not yet dispatched
    \* instance A, the Connection Owner
    activeTransports,             \* keys of activeTransports on A
    activeSubscriptionSessions,   \* the set of that name on A
    gpc,              \* position of the GET handler / its close handler
    decrCalls,        \* calls of decrementSubscriberCount made so far
    closeThrew,       \* an exception left the close handler
    unsubResult,      \* how the session's unsubscribe() ended: "none", "resolved", "rejected"
    \* the owner's callback, per relayed request
    opc,              \* [r] position of the callback
    streamEnded,      \* [r] the replayed request's body stream was ended (push(null))
    hres,             \* [r] what the handler did
    repub,            \* [r] the 100 ms re-publish timer
    pubLog,           \* [r] PUBLISHes made on responses:s1:<r>
    \* the Inbound Relay, per request
    rpc,              \* [r] position of the POST handler
    rin,              \* [r] the call: sessionId, instance, raw body
    written,          \* [r] the response sent to the caller
    timer,            \* [r] responseTimeout
    cbUnsub,          \* [r] the unsubscribe() started by the response callback
    reqPub,           \* [r] the PUBLISH on requests:s1 made for r
    unhandled,        \* [r] an exception left the timeout handler
    wby,              \* [r] the code that wrote the response
    checks,           \* [r] what sessionExists and getActiveSubscribers returned
    faults,           \* rejected broker commands so far
    \* the connections' close events, the subscriber client, and time
    reqClosed,        \* the "close" event of the GET request was emitted
    closeReason,      \* what waitPromise resolved with
    callerLeft,       \* [r] where the POST handler stood when its caller disconnected
    closeUnsub,       \* [r] the unsubscribe() started by the POST's close handler
    subscriberReady,  \* [instance] subscriber.isReady
    afterFirst,       \* what the first call of the session's unsubscribe() left
    now,              \* seconds since the start
    sessionExpiry,    \* when mcp:session:s1 expires
    subscriberExpiry, \* when mcp:subscribers:s1 expires
    \* the publisher clients
    publisherClient,  \* [instance] the module's publisherClient is set
    publishers,       \* [instance] publisher clients that connected; none is ever closed
    \* view tracking (api/utils/badge.ts)
    tool,             \* one call of a tool callback wrapped by withViewTracking
    \* the liveness tracker
    tracker,          \* what incrementSubscriberCount / decrementSubscriberCount returned last
    \* messages of other publishers
    stray,            \* messages that are not JSON, delivered to the listeners and not yet dispatched
    \* the duration of the push connection
    elapsed,          \* seconds since the GET handler started, and since its timer was armed
    \* the module's clients in one process
    redis             \* subscriberClient, publisherClient, regularClient and the operations that get them

brokerVars == <<sessionKeys, subscriberKey, reqSub, respSub, respInflight>>
getVars    == <<activeTransports, activeSubscriptionSessions, gpc, decrCalls, closeThrew,
               unsubResult>>
ownerVars  == <<opc, streamEnded, hres, repub, pubLog>>
relayVars  == <<rpc, rin, written, timer, cbUnsub, reqPub, unhandled, wby, checks>>
closeVars  == <<reqClosed, closeReason, callerLeft, closeUnsub>>
envVars    == <<reqClosed, closeReason, callerLeft, closeUnsub, subscriberReady, afterFirst,
               now, sessionExpiry, subscriberExpiry>>
clientVars == <<publisherClient, publishers>>
auxVars    == <<envVars, clientVars, tool, tracker, stray, elapsed, redis>>
relayAll   == <<brokerVars, getVars, ownerVars, relayVars, faults, envVars, clientVars, tracker,
               stray, elapsed, redis>>
vars == <<brokerVars, getVars, ownerVars, relayVars, faults, auxVars>>

NoCall == [sid |-> NoSid, inst |-> "B", body |-> "null"]
NoReqPub == [done |-> FALSE, receivers |-> 0, subscribed |-> FALSE]
NoChecks == [exists |-> "none", subscribers |-> -1, healed |-> FALSE]

NoSnapshot == <<>>
NoTracker == [incr |-> <<>>, decr |-> <<>>]     \* neither was called

\* No message of another publisher was delivered; the listeners called no
\* callback for one and dropped none.
\* The three module variables are null and no operation has asked for a client.
Kinds == {"subscriber", "publisher", "regular"}
MaxCallers == 2
Callers == 1..MaxCallers
NoClients ==
    [client   |-> [k \in Kinds |-> "null"],
     created  |-> [k \in Kinds |-> 0],
     connects |-> [k \in Kinds |-> 0],
     kind     |-> [c \in Callers |-> "regular"],
     pc       |-> [c \in Callers |-> "idle"]]

NoStray == [requests |-> <<>>, responses |-> <<>>, sent |-> 0, called |-> {}, dropped |-> {}]

\* ------------------------------------------------- values of view tracking
NoName == ""                   \* repoData.owner or repoData.repo is null
Bindings == {"missing", "present"}                  \* env?.VIEW_COUNTER
RepoData ==
    { [owner |-> "idosal", repo |-> "git-mcp"],
      [owner |-> NoName,   repo |-> "git-mcp"],
      [owner |-> "idosal", repo |-> NoName] }
\* ctx: with a waitUntil function, with one that throws, without one
Contexts == {"waitUntil", "waitUntilThrows", "none"}
\* env.VIEW_COUNTER.idFromName / get: return a stub, or throw
StubLookups == {"stub", "throws"}
\* stub.fetch and response.json: a count, a response that is not ok, a
\* rejection, the abort after the 1 s timeout, a body that is not JSON
FetchOutcomes ==
    { [kind |-> "ok", count |-> 1], [kind |-> "ok", count |-> 2],
      [kind |-> "notOk", count |-> 0], [kind |-> "rejects", count |-> 0],
      [kind |-> "aborted", count |-> 0], [kind |-> "badJson", count |-> 0] }
\* the promise of the original tool callback
OriginalOutcomes ==
    { [kind |-> "resolve", value |-> "docs"],
      [kind |-> "resolve", value |-> "no results"],
      [kind |-> "reject",  value |-> "tool error"] }
NoResult == [kind |-> "none", value |-> ""]

\* The promise incrementRepoViewCount returned.
NoIncrement == [state |-> "none", value |-> 0]
Fetching == [state |-> "fetching", value |-> 0]
Resolved(n) == [state |-> "resolved", value |-> n]
Rejected == [state |-> "rejected", value |-> 0]

NoTool ==
    [pc |-> "idle", binding |-> "missing", repoData |-> [owner |-> NoName, repo |-> NoName],
     ctx |-> "none", lookup |-> "stub", fetch |-> [kind |-> "notOk", count |-> 0],
     original |-> NoResult, calls |-> 0, result |-> NoResult, inc |-> NoIncrement,
     waited |-> FALSE]
NoExpiry == -1                 \* the key is absent or has no expiry

Init ==
    /\ sessionKeys = {}
    /\ subscriberKey = <<>>
    /\ reqSub = FALSE
    /\ respSub = [r \in Reqs |-> FALSE]
    /\ respInflight = [r \in Reqs |-> <<>>]
    /\ activeTransports = {}
    /\ activeSubscriptionSessions = {}
    /\ gpc = "new"
    /\ decrCalls = 0
    /\ closeThrew = FALSE
    /\ unsubResult = "none"
    /\ opc = [r \in Reqs |-> "none"]
    /\ streamEnded = [r \in Reqs |-> FALSE]
    /\ hres = [r \in Reqs |-> NoOutcome]
    /\ repub = [r \in Reqs |-> "none"]
    /\ pubLog = [r \in Reqs |-> <<>>]
    /\ rpc = [r \in Reqs |-> "idle"]
    /\ rin = [r \in Reqs |-> NoCall]
    /\ written = [r \in Reqs |-> NoResp]
    /\ timer = [r \in Reqs |-> "unarmed"]
    /\ cbUnsub = [r \in Reqs |-> "none"]
    /\ reqPub = [r \in Reqs |-> NoReqPub]
    /\ unhandled = [r \in Reqs |-> FALSE]
    /\ wby = [r \in Reqs |-> "none"]
    /\ checks = [r \in Reqs |-> NoChecks]
    /\ faults = 0
    /\ reqClosed = FALSE
    /\ closeReason = "none"
    /\ callerLeft = [r \in Reqs |-> "no"]
    /\ closeUnsub = [r \in Reqs |-> "none"]
    /\ subscriberReady = [i \in Instances |-> TRUE]
    /\ afterFirst = NoSnapshot
    /\ now = 0
    /\ sessionExpiry = NoExpiry
    /\ subscriberExpiry = NoExpiry
    /\ publisherClient = [i \in Instances |-> FALSE]
    /\ publishers = [i \in Instances |-> 0]
    /\ tool = NoTool
    /\ tracker = NoTracker
    /\ stray = NoStray
    /\ elapsed = [handler |-> 0, timer |-> 0]
    /\ redis = NoClients

\* ------------------------------------------------------------ conversions

ErrorText(msg) == msg

\* JSON.stringify({ error: message })
ErrorJson(msg) == "{\"error\":\"" \o msg \o "\"}"

\* JSON.parse(rawBody.toString("utf8")): ok is FALSE when it throws a SyntaxError;
\* truthy is the JavaScript truthiness of the parsed value.
JSONparse(raw) ==
    CASE raw = "null"  -> [ok |-> TRUE,  truthy |-> FALSE, text |-> "null"]
      [] raw = "{oops" -> [ok |-> FALSE, truthy |-> FALSE, text |-> ""]
      [] OTHER         -> [ok |-> TRUE,  truthy |-> TRUE,  text |-> raw]

\* The payload of publishResponse: JSON.stringify({status, body, timestamp});
\* the emergency path leaves the timestamp out.
ResponsePayload(status, body, stamped) ==
    [status |-> status, body |-> body, timestamp |-> stamped]

\* JSON.parse(message) as { status, body } in the relay's listener
ParseResponse(msg) == Resp(msg.status, msg.body)

\* ------------------------------------------------ the push connection (GET)

\* mcp.connect(transport) succeeded; activeTransports[sessionId] = transport.
GetConnect ==
    /\ gpc = "new"
    /\ activeTransports' = activeTransports \cup {OwnSession}
    /\ gpc' = "store"
    /\ UNCHANGED <<auxVars, brokerVars, activeSubscriptionSessions, decrCalls, closeThrew,
                   unsubResult, ownerVars, relayVars, faults>>

ExpiresNever(t) == NoExpiry

\* { EX: SESSION_TTL } / redis.expire(key, SESSION_TTL) at time t: when the key expires.
ExpiresAt(t) == t + SESSION_TTL

\* await storeSession(sessionId, ...): SET mcp:session:<id> EX SESSION_TTL.
StoreSession ==
    /\ gpc = "store"
    /\ sessionKeys' = sessionKeys \cup {OwnSession}
    /\ sessionExpiry' = ExpiresAt(now)
    /\ gpc' = "increment"
    /\ UNCHANGED <<clientVars, tool, redis, elapsed, stray, tracker, closeVars, subscriberReady, afterFirst, now, subscriberExpiry, subscriberKey, reqSub, respSub, respInflight, activeTransports,
                   activeSubscriptionSessions, decrCalls, closeThrew,
                   unsubResult, ownerVars, relayVars, faults>>

\* redis.incr(key) on a key that is absent counts from 0.
Incr(key) == IF key = <<>> THEN <<1>> ELSE <<key[1] + 1>>

\* redis.decr(key) on a key that is absent counts from 0.
Decr(key) == IF key = <<>> THEN <<-1>> ELSE <<key[1] - 1>>

\* subscribeToSessionMessages up to its subscribe: activeSubscriptionSessions.add,
\* then incrementSubscriberCount.
SessionIncrement ==
    /\ gpc = "increment"
    /\ activeSubscriptionSessions' = activeSubscriptionSessions \cup {OwnSession}
    /\ subscriberKey' = Incr(subscriberKey)
    /\ subscriberExpiry' = ExpiresAt(now)
    /\ tracker' = [tracker EXCEPT !.incr = Incr(subscriberKey)]
    /\ gpc' = "subscribe"
    /\ UNCHANGED <<clientVars, tool, redis, elapsed, stray, closeVars, subscriberReady, afterFirst, now, sessionExpiry, sessionKeys, reqSub, respSub, respInflight, activeTransports,
                   decrCalls, closeThrew, unsubResult, ownerVars, relayVars, faults>>

StoreSessionRejectedFatal ==
    /\ gpc = "store"
    /\ faults < MaxFaults
    /\ faults' = faults + 1
    /\ gpc' = "failed"
    /\ UNCHANGED <<auxVars, brokerVars, activeTransports, activeSubscriptionSessions,
                   decrCalls, closeThrew, unsubResult, ownerVars, relayVars>>

\* storeSession rejects: the error is logged by the handler, which goes on.
StoreSessionRejected ==
    /\ gpc = "store"
    /\ faults < MaxFaults
    /\ faults' = faults + 1
    /\ gpc' = "increment"
    /\ UNCHANGED <<auxVars, brokerVars, activeTransports, activeSubscriptionSessions,
                   decrCalls, closeThrew, unsubResult, ownerVars, relayVars>>

\* return -1 in the catch of incrementSubscriberCount / decrementSubscriberCount
TrackerFailure == <<-1>>

\* incrementSubscriberCount: activeSubscriptionSessions.add was done, redis.incr
\* rejects, -1 is returned and subscribeToSessionMessages goes on.
IncrementRejected ==
    /\ gpc = "increment"
    /\ faults < MaxFaults
    /\ faults' = faults + 1
    /\ activeSubscriptionSessions' = activeSubscriptionSessions \cup {OwnSession}
    /\ tracker' = [tracker EXCEPT !.incr = TrackerFailure]
    /\ gpc' = "subscribe"
    /\ UNCHANGED <<envVars, clientVars, tool, redis, elapsed, stray, brokerVars, activeTransports, decrCalls, closeThrew,
                   unsubResult, ownerVars, relayVars>>

\* incrementSubscriberCount: redis.incr resolved, redis.expire rejects; -1 is
\* returned and the key is left as INCR made it.
ExpireRejected ==
    /\ gpc = "increment"
    /\ faults < MaxFaults
    /\ faults' = faults + 1
    /\ activeSubscriptionSessions' = activeSubscriptionSessions \cup {OwnSession}
    /\ subscriberKey' = Incr(subscriberKey)
    /\ tracker' = [tracker EXCEPT !.incr = TrackerFailure]
    /\ gpc' = "subscribe"
    /\ UNCHANGED <<envVars, clientVars, tool, redis, elapsed, stray, sessionKeys, reqSub, respSub, respInflight,
                   activeTransports, decrCalls, closeThrew, unsubResult, ownerVars, relayVars>>

\* subscriber.subscribe rejects: subscribeToSessionMessages throws, the GET
\* handler writes the error and returns; no close handler was registered.
SessionSubscribeRejected ==
    /\ gpc = "subscribe"
    /\ faults < MaxFaults
    /\ faults' = faults + 1
    /\ gpc' = "failed"
    /\ UNCHANGED <<auxVars, brokerVars, activeTransports, activeSubscriptionSessions,
                   decrCalls, closeThrew, unsubResult, ownerVars, relayVars>>

\* if (!subscriber.isReady) await subscriber.connect()
Connected(ready, inst) == [ready EXCEPT ![inst] = TRUE]

\* subscriber.subscribe(requests:<id>, listener) takes effect at the broker.
SessionSubscribe ==
    /\ gpc = "subscribe"
    /\ reqSub' = TRUE
    /\ subscriberReady' = Connected(subscriberReady, "A")
    /\ gpc' = "subAck"
    /\ UNCHANGED <<clientVars, tool, redis, elapsed, stray, tracker, reqClosed, closeReason, callerLeft, closeUnsub, afterFirst, now,
                   sessionExpiry, subscriberExpiry, sessionKeys, subscriberKey, respSub, respInflight,
                   activeTransports, activeSubscriptionSessions, decrCalls, closeThrew,
                   unsubResult, ownerVars, relayVars, faults>>

\* subscribeToSessionMessages returned: req.on("close", ...) is registered.
SessionSubscribed ==
    /\ gpc = "subAck"
    /\ gpc' = "open"
    /\ UNCHANGED <<auxVars, brokerVars, activeTransports, activeSubscriptionSessions,
                   decrCalls, closeThrew, unsubResult, ownerVars, relayVars, faults>>

ListenerNeverRuns(registered, emitted) == FALSE

\* req.on("close", listener): the listener runs when "close" is emitted after
\* it was registered; "close" is emitted once.
ListenerRuns(registered, emitted) == registered /\ ~emitted

\* The client hangs up: the close handler deletes activeTransports[sessionId]
\* and calls unsubscribe(); the second listener resolves waitPromise.
ClientHangup ==
    /\ gpc = "open"
    /\ ListenerRuns(TRUE, reqClosed)
    /\ reqClosed' = TRUE
    /\ closeReason' = IF closeReason = "none" THEN "client hung up" ELSE closeReason
    /\ activeTransports' = activeTransports \ {OwnSession}
    /\ gpc' = "unsub"
    /\ UNCHANGED <<clientVars, tool, redis, elapsed, stray, tracker, callerLeft, closeUnsub, subscriberReady, afterFirst, now, sessionExpiry,
                   subscriberExpiry, brokerVars, activeSubscriptionSessions, decrCalls,
                   closeThrew, unsubResult, ownerVars, relayVars, faults>>

\* A request published while the subscription was active reaches the listener
\* before the acknowledgement of UNSUBSCRIBE does (one connection, in order).
\* A rejected UNSUBSCRIBE leaves the subscription in place or finds the
\* connection, and the subscription with it, gone.
NoRequestInFlight == \A r \in Reqs : opc[r] # "delivered"

UnsubscribeNeverSkipped(ready) == FALSE

\* if (!subscriber?.isReady): the unsubscribe closures skip the explicit
\* UNSUBSCRIBE when the client is not ready.
UnsubscribeSkipped(ready) == ~ready

\* The unsubscribe closure, try block: subscriber.unsubscribe(channel) resolved;
\* activeSubscriptionSessions.delete; decrementSubscriberCount is called.
SessionUnsubscribe ==
    /\ gpc = "unsub"
    /\ ~UnsubscribeSkipped(subscriberReady["A"])
    /\ NoRequestInFlight
    /\ reqSub' = FALSE
    /\ activeSubscriptionSessions' = activeSubscriptionSessions \ {OwnSession}
    /\ decrCalls' = decrCalls + 1
    /\ unsubResult' = "resolved"
    /\ gpc' = "decr"
    /\ UNCHANGED <<auxVars, sessionKeys, subscriberKey, respSub, respInflight,
                   activeTransports, closeThrew, ownerVars, relayVars, faults>>

SessionUnsubscribeRejectedNoCleanup ==
    /\ gpc = "unsub"
    /\ faults < MaxFaults
    /\ faults' = faults + 1
    /\ \E gone \in BOOLEAN : reqSub' = (reqSub /\ ~gone)
    /\ unsubResult' = "rejected"
    /\ gpc' = "rethrow"
    /\ UNCHANGED <<auxVars, sessionKeys, subscriberKey, respSub, respInflight, activeTransports,
                   activeSubscriptionSessions, decrCalls, closeThrew, ownerVars, relayVars>>

\* The unsubscribe closure, catch block: subscriber.unsubscribe(channel)
\* rejected; activeSubscriptionSessions.delete; decrementSubscriberCount is
\* called; the error is thrown again once the decrement is over.
SessionUnsubscribeRejected ==
    /\ gpc = "unsub"
    /\ faults < MaxFaults
    /\ faults' = faults + 1
    /\ \E gone \in BOOLEAN : reqSub' = (reqSub /\ ~gone)
    /\ activeSubscriptionSessions' = activeSubscriptionSessions \ {OwnSession}
    /\ decrCalls' = decrCalls + 1
    /\ unsubResult' = "rejected"
    /\ gpc' = "decrRethrow"
    /\ UNCHANGED <<auxVars, sessionKeys, subscriberKey, respSub, respInflight,
                   activeTransports, closeThrew, ownerVars, relayVars>>

\* decrementSubscriberCount: redis.decr(key).  A result > 0 is returned; a
\* result <= 0 goes on to redis.del(key).
DecrementDecr ==
    /\ gpc \in {"decr", "decrRethrow"}
    /\ subscriberKey' = Decr(subscriberKey)
    /\ gpc' = IF Decr(subscriberKey)[1] <= 0
              THEN (IF gpc = "decr" THEN "del" ELSE "delRethrow")
              ELSE (IF gpc = "decr" THEN "closing" ELSE "rethrow")
    /\ tracker' = IF Decr(subscriberKey)[1] <= 0 THEN tracker
                  ELSE [tracker EXCEPT !.decr = Decr(subscriberKey)]
    /\ UNCHANGED <<envVars, clientVars, tool, redis, elapsed, stray, sessionKeys, reqSub, respSub, respInflight, activeTransports,
                   activeSubscriptionSessions, decrCalls, closeThrew,
                   unsubResult, ownerVars, relayVars, faults>>

\* decrementSubscriberCount: redis.del(key), return 0.
DecrementDel ==
    /\ gpc \in {"del", "delRethrow"}
    /\ subscriberKey' = <<>>
    /\ subscriberExpiry' = NoExpiry
    /\ tracker' = [tracker EXCEPT !.decr = <<0>>]
    /\ gpc' = IF gpc = "del" THEN "closing" ELSE "rethrow"
    /\ UNCHANGED <<clientVars, tool, redis, elapsed, stray, closeVars, subscriberReady, afterFirst, now, sessionExpiry, sessionKeys, reqSub, respSub, respInflight, activeTransports,
                   activeSubscriptionSessions, decrCalls, closeThrew,
                   unsubResult, ownerVars, relayVars, faults>>

\* decrementSubscriberCount: redis.decr or redis.del rejects; -1 is returned
\* and the key is left as it was by then.
DecrementRejected ==
    /\ gpc \in {"decr", "decrRethrow", "del", "delRethrow"}
    /\ faults < MaxFaults
    /\ faults' = faults + 1
    /\ tracker' = [tracker EXCEPT !.decr = TrackerFailure]
    /\ gpc' = IF gpc \in {"decr", "del"} THEN "closing" ELSE "rethrow"
    /\ UNCHANGED <<envVars, clientVars, tool, redis, elapsed, stray, brokerVars, activeTransports,
                   activeSubscriptionSessions, decrCalls, closeThrew, unsubResult,
                   ownerVars, relayVars>>

\* The close handler's try/catch around await unsubscribe(): TRUE when an
\* error thrown by unsubscribe() is caught there.
CloseHandlerCatches == TRUE

\* The close handler after await unsubscribe(): the remaining logs are flushed.
CloseHandlerEnd ==
    /\ gpc \in {"closing", "rethrow"}
    /\ closeThrew' = (gpc = "rethrow" /\ ~CloseHandlerCatches)
    /\ gpc' = "closed"
    /\ UNCHANGED <<auxVars, brokerVars, activeTransports, activeSubscriptionSessions,
                   decrCalls, unsubResult, ownerVars, relayVars, faults>>

\* The client hangs up while storeSession or subscribeToSessionMessages is
\* awaited: "close" is emitted on a request that has no listener yet.
ClientHangupEarly ==
    /\ gpc \in {"store", "increment", "subscribe", "subAck"}
    /\ ~reqClosed
    /\ reqClosed' = TRUE
    /\ UNCHANGED <<clientVars, tool, redis, elapsed, stray, tracker, closeReason, callerLeft, closeUnsub, subscriberReady, afterFirst, now,
                   sessionExpiry, subscriberExpiry, brokerVars, getVars, ownerVars,
                   relayVars, faults>>

\* The max-duration timer fires: waitPromise resolves, the handler clears the
\* log interval, ends the response with res.status(200).end() and returns.
MaxDurationReached ==
    /\ gpc = "open"
    /\ closeReason = "none"
    /\ closeReason' = "max duration reached"
    /\ gpc' = "ended"
    /\ UNCHANGED <<clientVars, tool, redis, elapsed, stray, tracker, reqClosed, callerLeft, closeUnsub, subscriberReady, afterFirst, now,
                   sessionExpiry, subscriberExpiry, brokerVars, activeTransports,
                   activeSubscriptionSessions, decrCalls, closeThrew, unsubResult,
                   ownerVars, relayVars, faults>>

\* The response has ended and the connection with it: "close" is emitted on
\* the request, and the close handler deletes activeTransports[sessionId] and
\* calls unsubscribe().
RequestClosedAfterEnd ==
    /\ gpc = "ended"
    /\ ListenerRuns(TRUE, reqClosed)
    /\ reqClosed' = TRUE
    /\ activeTransports' = activeTransports \ {OwnSession}
    /\ gpc' = "unsub"
    /\ UNCHANGED <<clientVars, tool, redis, elapsed, stray, tracker, closeReason, callerLeft, closeUnsub, subscriberReady, afterFirst, now,
                   sessionExpiry, subscriberExpiry, brokerVars, activeSubscriptionSessions,
                   decrCalls, closeThrew, unsubResult, ownerVars, relayVars, faults>>

\* ------------------------------------------------- the Inbound Relay (POST)

Upd(f, r, v) == [f EXCEPT ![r] = v]

\* The transport's own handling of a call that arrived on the owning instance:
\* what handlePostMessage(req, res) wrote, or the outer catch's 500.
NativeResult(out) ==
    IF out.kind = "return" THEN Resp(out.status, out.body)
    ELSE Resp(500, ErrorJson(out.body))

LocalTransportNever(inst, sid) == FALSE

\* activeTransports[sessionId] on the instance that received the POST.
LocalTransport(inst, sid) == inst = "A" /\ sid \in activeTransports

\* activeSubscriptionSessions.has(sessionId) on the instance that received the POST.
LocalSubscription(inst, sid) == inst = "A" /\ sid \in activeSubscriptionSessions

\* if (!sessionId)
MissingSessionId(sid) == sid = NoSid

UnknownSessionIgnored(valid) == FALSE

\* if (!sessionValid)
UnknownSession(valid) == ~valid

NoActiveSubscribersNegative(n) == n < 0

\* if (activeSubscribers === 0)
NoActiveSubscribers(n) == n = 0

\* A POST /message arrives: the sessionId check and the look-up in activeTransports.
PostArrive(r, sid, inst, body) ==
    /\ rpc[r] = "idle"
    /\ rin' = Upd(rin, r, [sid |-> sid, inst |-> inst, body |-> body])
    /\ IF MissingSessionId(sid)
       THEN /\ written' = Upd(written, r, Resp(400, ErrorJson("Missing sessionId parameter")))
            /\ wby' = Upd(wby, r, "validate")
            /\ rpc' = Upd(rpc, r, "done")
       ELSE /\ UNCHANGED <<written, wby>>
            /\ rpc' = Upd(rpc, r, IF LocalTransport(inst, sid) THEN "local" ELSE "exists")
    /\ UNCHANGED <<auxVars, brokerVars, getVars, ownerVars, timer, cbUnsub, reqPub, unhandled,
                   checks, faults>>

\* await activeTransports[sessionId].handlePostMessage(req, res): the fast path.
LocalHandle(r, out) ==
    /\ rpc[r] = "local"
    /\ written' = Upd(written, r, NativeResult(out))
    /\ wby' = Upd(wby, r, "local")
    /\ rpc' = Upd(rpc, r, "done")
    /\ UNCHANGED <<auxVars, brokerVars, getVars, ownerVars, rin, timer, cbUnsub, reqPub, unhandled,
                   checks, faults>>

\* sessionExists(sessionId): !!(await redis.get(mcp:session:<id>))
SessionExistsResult(sid) == sid \in sessionKeys

\* await sessionExists(sessionId) and the 400 for an unknown session.
CheckSession(r) ==
    LET valid == SessionExistsResult(rin[r].sid)
    IN  /\ rpc[r] = "exists"
        /\ checks' = Upd(checks, r, [checks[r] EXCEPT !.exists = IF valid THEN "yes" ELSE "no"])
        /\ IF UnknownSession(valid)
           THEN /\ rpc' = Upd(rpc, r, "done")
                /\ wby' = Upd(wby, r, "validate")
                /\ written' = Upd(written, r,
                       Resp(400, ErrorJson("No active SSE session for the provided sessionId")))
           ELSE /\ rpc' = Upd(rpc, r, "liveness")
                /\ UNCHANGED <<written, wby>>
        /\ UNCHANGED <<auxVars, brokerVars, getVars, ownerVars, rin, timer, cbUnsub, reqPub,
                       unhandled, faults>>

\* getActiveSubscribers(sessionId), its result: the stored count, or, the key
\* being absent, 1 with a local subscription and 0 without.
ActiveSubscribersResult(key, local) ==
    IF key = <<>> THEN (IF local THEN 1 ELSE 0) ELSE key[1]

ActiveSubscribersNoWrite(key, local) == key

\* getActiveSubscribers(sessionId), its write: SET key "1" when the key is
\* absent and the process holds a local subscription.
ActiveSubscribersWrite(key, local) ==
    IF key = <<>> /\ local THEN <<1>> ELSE key

\* await getActiveSubscribers(sessionId) and the 503 for a count of 0.
CheckLiveness(r) ==
    LET local == LocalSubscription(rin[r].inst, rin[r].sid)
        n == ActiveSubscribersResult(subscriberKey, local)
    IN  /\ rpc[r] = "liveness"
        /\ subscriberKey' = ActiveSubscribersWrite(subscriberKey, local)
        /\ subscriberExpiry' = IF ActiveSubscribersWrite(subscriberKey, local) # subscriberKey
                               THEN ExpiresAt(now) ELSE subscriberExpiry
        /\ checks' = Upd(checks, r, [checks[r] EXCEPT !.subscribers = n,
                  !.healed = ActiveSubscribersWrite(subscriberKey, local) # subscriberKey])
        /\ IF NoActiveSubscribers(n)
           THEN /\ rpc' = Upd(rpc, r, "done")
                /\ wby' = Upd(wby, r, "liveness")
                /\ written' = Upd(written, r, Resp(503, ErrorJson("no active subscribers")))
           ELSE /\ rpc' = Upd(rpc, r, "queue")
                /\ UNCHANGED <<written, wby>>
        /\ UNCHANGED <<clientVars, tool, redis, elapsed, stray, tracker, closeVars, subscriberReady, afterFirst, now, sessionExpiry, sessionKeys, reqSub, respSub, respInflight, getVars, ownerVars,
                       rin, timer, cbUnsub, reqPub, unhandled, faults>>

ActiveSubscribersOnFailureZero(local) == 0

\* getActiveSubscribers, catch block: 1 with a local subscription, else 0.
ActiveSubscribersOnFailure(local) == IF local THEN 1 ELSE 0

\* getActiveSubscribers: the registry client or redis.get rejects; the POST
\* handler goes by what the catch block returned.
LivenessRejected(r) ==
    LET n == ActiveSubscribersOnFailure(LocalSubscription(rin[r].inst, rin[r].sid))
    IN  /\ rpc[r] = "liveness"
        /\ faults < MaxFaults
        /\ faults' = faults + 1
        /\ checks' = Upd(checks, r, [checks[r] EXCEPT !.subscribers = n])
        /\ IF NoActiveSubscribers(n)
           THEN /\ rpc' = Upd(rpc, r, "done")
                /\ wby' = Upd(wby, r, "liveness")
                /\ written' = Upd(written, r, Resp(503, ErrorJson("no active subscribers")))
           ELSE /\ rpc' = Upd(rpc, r, "queue")
                /\ UNCHANGED <<written, wby>>
        /\ UNCHANGED <<auxVars, brokerVars, getVars, ownerVars, rin, timer, cbUnsub, reqPub,
                       unhandled>>

ReceiversAlwaysOne(subscribed) == 1

\* publisher.publish(channel, payload): the number of receivers.
Receivers(subscribed) == IF subscribed THEN 1 ELSE 0

\* A publisher client is created and connects: publisherClient is set, or
\* left unset by the code that dropped the reference meanwhile.
PublisherCreated(inst, kept) ==
    /\ publisherClient' = [publisherClient EXCEPT ![inst] = kept]
    /\ publishers' = [publishers EXCEPT ![inst] = @ + 1]

\* getPublisherClient resolves: with the client the module holds, or with a
\* new one that it creates and connects.
PublisherObtained(inst) ==
    IF publisherClient[inst] THEN UNCHANGED clientVars
    ELSE PublisherCreated(inst, TRUE)

\* A publish fails: on a connected client, which stays and reconnects by its
\* reconnectStrategy (created says that this call created it), or because
\* the new client did not connect, which leaves publisherClient null.
PublishFailed(inst, created) ==
    IF created THEN PublisherCreated(inst, TRUE)
    ELSE UNCHANGED clientVars

\* parseRawBody, JSON.parse and queueMessage: PUBLISH on requests:<id>.  A
\* body that is not JSON throws into the outer catch (500).
QueueMessage(r) ==
    /\ rpc[r] = "queue"
    /\ IF JSONparse(rin[r].body).ok
       THEN /\ reqPub' = Upd(reqPub, r, [done |-> TRUE,
                                         receivers |-> Receivers(reqSub),
                                         subscribed |-> respSub[r]])
            /\ opc' = Upd(opc, r, IF Receivers(reqSub) > 0 THEN "delivered" ELSE opc[r])
            /\ rpc' = Upd(rpc, r, "subscribe")
            /\ PublisherObtained(rin[r].inst)
            /\ UNCHANGED <<written, wby>>
       ELSE /\ written' = Upd(written, r, Resp(500, ErrorJson("Unexpected token")))
            /\ wby' = Upd(wby, r, "catch")
            /\ rpc' = Upd(rpc, r, "done")
            /\ UNCHANGED <<reqPub, opc, clientVars>>
    /\ UNCHANGED <<envVars, tool, redis, elapsed, stray, tracker, brokerVars, getVars, streamEnded, hres, repub, pubLog,
                   rin, timer, cbUnsub, unhandled, checks, faults>>

\* subscribeToResponse: SUBSCRIBE responses:<id>:<requestId> takes effect at
\* the broker and the listener is registered.
ResponseSubscribe(r) ==
    /\ rpc[r] = "subscribe"
    /\ respSub' = Upd(respSub, r, TRUE)
    /\ subscriberReady' = Connected(subscriberReady, rin[r].inst)
    /\ rpc' = Upd(rpc, r, "subAck")
    /\ UNCHANGED <<clientVars, tool, redis, elapsed, stray, tracker, reqClosed, closeReason, callerLeft, closeUnsub, afterFirst, now,
                   sessionExpiry, subscriberExpiry, sessionKeys, subscriberKey, reqSub, respInflight, getVars, ownerVars,
                   rin, written, timer, cbUnsub, reqPub, unhandled, wby, checks, faults>>

\* setTimeout order: of two timers, the one with the shorter delay that was
\* armed first fires first.
FiresBefore(d1, d2) == d1 < d2

\* subscribeToResponse returned: unsubscribe is initialised and
\* responseTimeout = setTimeout(..., 10000) is armed.  A re-publish timer
\* armed by now fires before responseTimeout does.
ResponseSubscribed(r) ==
    /\ rpc[r] = "subAck"
    /\ timer' = Upd(timer, r, "armed")
    /\ repub' = Upd(repub, r,
          IF repub[r] = "armed" /\ FiresBefore(REPUBLISH_DELAY_MS, RESPONSE_TIMEOUT_MS)
          THEN "armedFirst" ELSE repub[r])
    /\ rpc' = Upd(rpc, r, "waiting")
    /\ UNCHANGED <<auxVars, brokerVars, getVars, opc, streamEnded, hres, pubLog,
                   rin, written, cbUnsub, reqPub, unhandled, wby, checks, faults>>

\* res.status(s).send(b) / .json(b): the first write is sent; a later one
\* throws (headers already sent) and nothing more reaches the caller.
ResWrite(cur, resp) == IF cur = NoResp THEN resp ELSE cur

\* Who wrote the response: the first writer.
Writer(cur, old, who) == IF cur = NoResp THEN who ELSE old

\* clearTimeout(responseTimeout) in the response callback; responseTimeout is
\* undefined until setTimeout has run.
ClearTimeout(t) == IF t = "armed" THEN "cleared" ELSE t

\* unsubscribe() in the response callback: started, unless the callback runs
\* before subscribeToResponse has returned, where the use of unsubscribe throws
\* into the listener's catch.
CallbackUnsubscribe(pc, cur) == IF pc = "subAck" THEN cur ELSE "pending"

\* The listener of the response channel and the response callback: the message
\* is parsed, the timer cleared, the response written, unsubscribe() started.
ResponseCallback(r) ==
    /\ respSub[r]
    /\ respInflight[r] # <<>>
    /\ respInflight' = Upd(respInflight, r, Tail(respInflight[r]))
    /\ timer' = Upd(timer, r, ClearTimeout(timer[r]))
    /\ written' = Upd(written, r, ResWrite(written[r], ParseResponse(Head(respInflight[r]).message)))
    /\ wby' = Upd(wby, r, Writer(written[r], wby[r], "callback"))
    /\ cbUnsub' = Upd(cbUnsub, r, CallbackUnsubscribe(rpc[r], cbUnsub[r]))
    /\ rpc' = Upd(rpc, r, IF rpc[r] = "waiting" THEN "responded" ELSE rpc[r])
    /\ UNCHANGED <<auxVars, sessionKeys, subscriberKey, reqSub, respSub, getVars, ownerVars,
                   rin, reqPub, unhandled, checks, faults>>

\* The unsubscribe() of the response callback resolved.  Messages published
\* before the broker handled UNSUBSCRIBE are dispatched first.
CallbackUnsubscribed(r) ==
    /\ cbUnsub[r] = "pending"
    /\ respInflight[r] = <<>>
    /\ respSub' = Upd(respSub, r, FALSE)
    /\ cbUnsub' = Upd(cbUnsub, r, "done")
    /\ UNCHANGED <<auxVars, sessionKeys, subscriberKey, reqSub, respInflight, getVars, ownerVars,
                   rpc, rin, written, timer, reqPub, unhandled, wby, checks, faults>>

\* responseTimeout fires: the handler starts await unsubscribe().
ResponseTimeout(r) ==
    /\ timer[r] = "armed"
    /\ repub[r] # "armedFirst"
    /\ timer' = Upd(timer, r, "fired")
    /\ rpc' = Upd(rpc, r, "timeoutUnsub")
    /\ UNCHANGED <<auxVars, brokerVars, getVars, ownerVars, rin, written, cbUnsub, reqPub,
                   unhandled, wby, checks, faults>>

TimeoutKeepsSubscription(subscribed) == subscribed

\* await unsubscribe() in the timeout handler: the subscription it leaves.
TimeoutUnsubscribe(subscribed) == FALSE

\* The timeout handler after await unsubscribe(): res.status(408).json(...).
TimeoutRespond(r) ==
    /\ rpc[r] = "timeoutUnsub"
    /\ ~UnsubscribeSkipped(subscriberReady[rin[r].inst])
    /\ respInflight[r] = <<>>
    /\ respSub' = Upd(respSub, r, TimeoutUnsubscribe(respSub[r]))
    /\ written' = Upd(written, r, ResWrite(written[r], Resp(408, ErrorJson("timed out"))))
    /\ wby' = Upd(wby, r, Writer(written[r], wby[r], "timeout"))
    /\ unhandled' = Upd(unhandled, r, written[r] # NoResp)
    /\ rpc' = Upd(rpc, r, "done")
    /\ UNCHANGED <<auxVars, sessionKeys, subscriberKey, reqSub, respInflight, getVars, ownerVars,
                   rin, timer, cbUnsub, reqPub, faults, checks>>

\* The POST's close handler is registered in the stretch that arms
\* responseTimeout, after subscribeToResponse has returned.
CallerListenerRegistered(t) == t # "unarmed"

\* The caller of a relayed POST disconnects before a response was written.
\* The close handler, where it is registered, clears the timer and starts
\* await unsubscribe(); a "close" emitted earlier has no listener.
CallerHangup(r) ==
    /\ rpc[r] \in {"exists", "liveness", "queue", "subscribe", "subAck", "waiting"}
    /\ callerLeft[r] = "no"
    /\ written[r] = NoResp
    /\ callerLeft' = Upd(callerLeft, r, rpc[r])
    /\ IF ListenerRuns(CallerListenerRegistered(timer[r]), FALSE)
       THEN /\ timer' = Upd(timer, r, ClearTimeout(timer[r]))
            /\ closeUnsub' = Upd(closeUnsub, r, "pending")
       ELSE UNCHANGED <<timer, closeUnsub>>
    /\ UNCHANGED <<clientVars, tool, redis, elapsed, stray, tracker, reqClosed, closeReason, subscriberReady, afterFirst, now, sessionExpiry,
                   subscriberExpiry, brokerVars, getVars, ownerVars, rpc, rin, written,
                   cbUnsub, reqPub, unhandled, wby, checks, faults>>

\* The unsubscribe() of the POST's close handler resolved.
CloseUnsubscribed(r) ==
    /\ closeUnsub[r] = "pending"
    /\ respInflight[r] = <<>>
    /\ respSub' = Upd(respSub, r, FALSE)
    /\ closeUnsub' = Upd(closeUnsub, r, "done")
    /\ UNCHANGED <<clientVars, tool, redis, elapsed, stray, tracker, reqClosed, closeReason, callerLeft, subscriberReady, afterFirst, now,
                   sessionExpiry, subscriberExpiry, sessionKeys, subscriberKey, reqSub,
                   respInflight, getVars, ownerVars, relayVars, faults>>

\* ------------------------------------------------------------ time passes

MaxTicks == 3        \* steps of the clock in one run (SpecTime)

\* One step of the clock: half the session TTL.
ClockStep == SESSION_TTL \div 2

ExpiredAtOnce(expiry, t) == expiry # NoExpiry

\* A key with an expiry is gone from the time of its expiry on.
Expired(expiry, t) == expiry # NoExpiry /\ t >= expiry

\* A step of the clock passes.  The response timers, the re-publish timers
\* and the max-duration timer of an open connection fire before it has
\* passed.  Keys whose expiry is reached are gone.
Tick ==
    /\ now < MaxTicks * ClockStep
    /\ FiresBefore(RESPONSE_TIMEOUT_MS, ClockStep * 1000)
    /\ FiresBefore((MAX_DURATION_S - 5) * 1000, ClockStep * 1000)
    /\ \A r \in Reqs : timer[r] # "armed" /\ repub[r] \notin {"armed", "armedFirst"}
    /\ gpc # "open"
    /\ now' = now + ClockStep
    /\ sessionKeys' = IF Expired(sessionExpiry, now + ClockStep)
                       THEN sessionKeys \ {OwnSession} ELSE sessionKeys
    /\ subscriberKey' = IF Expired(subscriberExpiry, now + ClockStep)
                         THEN <<>> ELSE subscriberKey
    /\ subscriberExpiry' = IF Expired(subscriberExpiry, now + ClockStep)
                            THEN NoExpiry ELSE subscriberExpiry
    /\ UNCHANGED <<clientVars, tool, redis, elapsed, stray, tracker, closeVars, subscriberReady, afterFirst, sessionExpiry, reqSub, respSub,
                   respInflight, getVars, ownerVars, relayVars, faults>>

\* -------------------------------------- the duration of a push connection

MaxSetup == 2        \* seconds the awaits before the max-duration timer may take

\* The GET handler is between its start and the end of its response.
HandlerRunning == gpc \in {"store", "increment", "subscribe", "subAck", "open"}

\* setTimeout(..., (maxDuration - 5) * 1000) runs after the awaits of
\* mcp.connect, storeSession and subscribeToSessionMessages: the timer is
\* armed from the point where the handler awaits waitPromise.
TimerArmed == gpc = "open"

\* A second passes while the GET handler runs.  The setup takes up to
\* MaxSetup seconds; the max-duration timer fires when its delay is over.
Elapse ==
    /\ HandlerRunning
    /\ ~TimerArmed => elapsed.handler < MaxSetup
    /\ TimerArmed => elapsed.timer < MAX_DURATION_S - 5
    /\ elapsed' = [handler |-> elapsed.handler + 1,
                   timer |-> IF TimerArmed THEN elapsed.timer + 1 ELSE elapsed.timer]
    /\ UNCHANGED <<envVars, clientVars, tool, redis, tracker, stray, brokerVars, getVars, ownerVars,
                   relayVars, faults>>

\* The max-duration timer fires (maxDuration - 5) seconds after it was armed.
MaxDurationElapsed ==
    /\ TimerArmed
    /\ elapsed.timer = MAX_DURATION_S - 5
    /\ MaxDurationReached

\* ------------------------------------------------- the module's clients

\* getSubscriberClient / getPublisherClient / getRegularClient, up to their
\* first await: with the module variable null a client is created, assigned
\* to the variable and its connect() started; otherwise the variable's client
\* is returned as it is.
GetClient(c, k) ==
    /\ redis.pc[c] = "idle"
    /\ redis' = IF redis.client[k] = "null"
                THEN [redis EXCEPT !.client[k] = "connecting",
                                   !.created[k] = @ + 1,
                                   !.connects[k] = @ + 1,
                                   !.kind[c] = k,
                                   !.pc[c] = "connect"]
                ELSE [redis EXCEPT !.kind[c] = k, !.pc[c] = "got"]
    /\ UNCHANGED <<envVars, clientVars, tool, tracker, stray, elapsed, brokerVars, getVars,
                   ownerVars, relayVars, faults>>

\* The connect() of a client resolves: the client is ready, the getter that
\* awaited it returns, and what waited on the client goes on.
ConnectResolved(k) ==
    /\ redis.client[k] = "connecting"
    /\ redis' = [redis EXCEPT
          !.client[k] = "ready",
          !.pc = [c \in Callers |->
                    IF redis.kind[c] = k /\ redis.pc[c] = "connect" THEN "got"
                    ELSE IF redis.kind[c] = k /\ redis.pc[c] \in {"queued", "connect2"} THEN "done"
                    ELSE redis.pc[c]]]
    /\ UNCHANGED <<envVars, clientVars, tool, tracker, stray, elapsed, brokerVars, getVars,
                   ownerVars, relayVars, faults>>

\* if (!client.isReady) await client.connect() in subscribeToSessionMessages,
\* subscribeToResponse, queueMessage and publishResponse; the operations on
\* the regular client send their command without the test.
TestsReady(k) == k # "regular"

\* What connect() does on a client whose connect() is pending is the
\* library's: it rejects (the socket is already opened), or it resolves with
\* the pending one.
SecondConnect == {"rejects", "joins"}

\* The operation uses the client it got: a command on a ready client is sent;
\* on a client that is not ready the operation calls connect() once more, or,
\* without the test, leaves its command in the client's queue.
UseClient(c, second) ==
    LET k == redis.kind[c]
    IN  /\ redis.pc[c] = "got"
        /\ redis' =
              IF redis.client[k] = "ready" THEN [redis EXCEPT !.pc[c] = "done"]
              ELSE IF TestsReady(k)
                   THEN [redis EXCEPT !.connects[k] = @ + 1,
                                      !.pc[c] = IF second = "rejects" THEN "failed"
                                                ELSE "connect2"]
                   ELSE [redis EXCEPT !.pc[c] = "queued"]
        /\ UNCHANGED <<envVars, clientVars, tool, tracker, stray, elapsed, brokerVars, getVars,
                       ownerVars, relayVars, faults>>

\* ------------------------------------ the subscriber connection goes away

\* An unsubscribe closure has sent its UNSUBSCRIBE on the instance's subscriber
\* client and awaits the reply.
UnsubscribePending(inst) ==
    \/ inst = "A" /\ gpc = "unsub"
    \/ \E r \in Reqs : rin[r].inst = inst /\ (rpc[r] = "timeoutUnsub" \/ cbUnsub[r] = "pending")

\* The subscriber connection of an instance that holds a subscription ends:
\* isReady is false and the broker has dropped the connection's subscriptions.
SubscriberDisconnects(inst) ==
    /\ subscriberReady[inst]
    /\ ~UnsubscribePending(inst)
    /\ \/ inst = "A" /\ reqSub
       \/ \E r \in Reqs : rin[r].inst = inst /\ respSub[r]
    /\ subscriberReady' = [subscriberReady EXCEPT ![inst] = FALSE]
    /\ reqSub' = (reqSub /\ inst # "A")
    /\ respSub' = [r \in Reqs |-> respSub[r] /\ rin[r].inst # inst]
    /\ respInflight' = [r \in Reqs |-> IF rin[r].inst = inst THEN <<>> ELSE respInflight[r]]
    /\ UNCHANGED <<clientVars, tool, redis, elapsed, stray, tracker, reqClosed, closeReason, callerLeft, closeUnsub, afterFirst, now,
                   sessionExpiry, subscriberExpiry, sessionKeys, subscriberKey, getVars,
                   ownerVars, relayVars, faults>>

\* The session's unsubscribe closure with the client not ready: the explicit
\* unsubscribe is skipped, activeSubscriptionSessions.delete and
\* decrementSubscriberCount follow.  A command sent on the closed client
\* would reject and take the closure to its catch block.
SessionUnsubscribeNotReady ==
    /\ gpc = "unsub"
    /\ ~subscriberReady["A"]
    /\ activeSubscriptionSessions' = activeSubscriptionSessions \ {OwnSession}
    /\ decrCalls' = decrCalls + 1
    /\ unsubResult' = IF UnsubscribeSkipped(subscriberReady["A"]) THEN "skipped" ELSE "rejected"
    /\ gpc' = IF UnsubscribeSkipped(subscriberReady["A"]) THEN "decr" ELSE "decrRethrow"
    /\ UNCHANGED <<auxVars, brokerVars, activeTransports, closeThrew, ownerVars, relayVars,
                   faults>>

\* The timeout handler with the client not ready: await unsubscribe() returns
\* at once and 408 is written.  A closure that threw would leave the handler
\* before its write.
TimeoutUnsubscribeNotReady(r) ==
    LET skipped == UnsubscribeSkipped(subscriberReady[rin[r].inst])
    IN  /\ rpc[r] = "timeoutUnsub"
        /\ ~subscriberReady[rin[r].inst]
        /\ written' = Upd(written, r,
               IF skipped THEN ResWrite(written[r], Resp(408, ErrorJson("timed out")))
               ELSE written[r])
        /\ wby' = Upd(wby, r, IF skipped THEN Writer(written[r], wby[r], "timeout") ELSE wby[r])
        /\ unhandled' = Upd(unhandled, r, ~skipped \/ written[r] # NoResp)
        /\ cbUnsub' = Upd(cbUnsub, r, IF skipped THEN "skipped" ELSE "rejected")
        /\ rpc' = Upd(rpc, r, "done")
        /\ UNCHANGED <<auxVars, brokerVars, getVars, ownerVars, rin, timer, reqPub, checks,
                       faults>>

\* The function returned by subscribeToSessionMessages is called once more
\* after its first call has ended.
UnsubscribeAgain ==
    /\ gpc = "closing"
    /\ afterFirst = NoSnapshot
    /\ afterFirst' = <<subscriberKey, reqSub, activeSubscriptionSessions>>
    /\ gpc' = "unsub"
    /\ UNCHANGED <<clientVars, tool, redis, elapsed, stray, tracker, reqClosed, closeReason, callerLeft, closeUnsub, subscriberReady, now,
                   sessionExpiry, subscriberExpiry, brokerVars, activeTransports,
                   activeSubscriptionSessions, decrCalls, closeThrew, unsubResult,
                   ownerVars, relayVars, faults>>

\* --------------------------------------- the Connection Owner's callback

\* createFakeIncomingMessage: the body is pushed, and the stream ended with
\* push(null), inside if (body).
FakeStreamEnded(msg) == msg.truthy

ListenerAwaitsCallbackAlways == TRUE

\* callback(parsedMessage): the listener does not await the promise the
\* callback returns.
ListenerAwaitsCallback == FALSE

\* A message is held back while the callback of another one is running.
OwnerBusy(r) ==
    /\ ListenerAwaitsCallback
    /\ \E q \in Reqs \ {r} :
          opc[q] \in {"handling", "publish1", "publish2", "emergency1", "emergency2"}

\* The listener of requests:<id> parses the message and calls the callback,
\* which builds the fake request and calls transport.handlePostMessage.
OwnerReceive(r) ==
    /\ opc[r] = "delivered"
    /\ ~OwnerBusy(r)
    /\ streamEnded' = Upd(streamEnded, r, FakeStreamEnded(JSONparse(rin[r].body)))
    /\ opc' = Upd(opc, r, "handling")
    /\ UNCHANGED <<auxVars, brokerVars, getVars, hres, repub, pubLog, relayVars, faults>>

\* await transport.handlePostMessage(fReq, syntheticRes) is over.  The handler
\* reads the request body to its end before it answers.
HandlerDone(r, out) ==
    /\ opc[r] = "handling"
    /\ streamEnded[r]
    /\ hres' = Upd(hres, r, out)
    /\ opc' = Upd(opc, r, "publish1")
    /\ UNCHANGED <<auxVars, brokerVars, getVars, streamEnded, repub, pubLog, relayVars, faults>>

CapturedResponseStatusLost(out) ==
    IF out.kind = "return" THEN Resp(200, out.body)
    ELSE Resp(500, ErrorJson(out.body))

\* status and body as the callback captured them: writeHead's status code and
\* end's string, or 500 and the error's message when the handler threw.
CapturedResponse(out) ==
    IF out.kind = "return" THEN Resp(out.status, out.body)
    ELSE Resp(500, ErrorJson(out.body))

\* What a call of publishResponse publishes: the captured response in the
\* callback's try block, 500 and the publish error in its catch block.
ResponseOfCall(r) ==
    IF opc[r] \in {"publish1", "emergency1"} THEN CapturedResponse(hres[r])
    ELSE Resp(500, ErrorJson("publish failed"))

ResponseChannelOfSession(sid, rid) == <<"responses", sid>>

\* `${RESPONSE_CHANNEL_PREFIX}${sessionId}:${requestId}`
ResponseChannel(sid, rid) == <<"responses", sid, rid>>

\* The relays whose subscriber connection is subscribed on a channel; relay q
\* subscribes with the sessionId of its call and the requestId queueMessage
\* gave it.
Subscribers(channel) ==
    {q \in Reqs : respSub[q] /\ ResponseChannel(rin[q].sid, q) = channel}

\* What PUBLISH returns to the owner for request r.
ResponseReceivers(r) == Cardinality(Subscribers(ResponseChannel(OwnSession, r)))

RepublishAlways(receivers) == TRUE

\* if (publishResult === 0) setTimeout(re-publish, 100)
RepublishNeeded(receivers) == receivers = 0

\* A PUBLISH on responses:<id>:<requestId>, as the broker saw it: the payload,
\* the receivers, the code that published, and where the relay of r stood.
LogEntry(r, resp, kind) ==
    [resp |-> resp, receivers |-> ResponseReceivers(r), kind |-> kind,
     relay |-> rpc[r]]

\* The broker hands a payload published for request r to every relay
\* subscribed on the channel it was published on.
Deliver(r, payload) ==
    respInflight' =
        [q \in Reqs |->
            IF q \in Subscribers(ResponseChannel(OwnSession, r))
            THEN Append(respInflight[q], [rid |-> r, message |-> payload])
            ELSE respInflight[q]]

\* publishResponse, try block: PUBLISH on responses:<id>:<requestId>; with 0
\* receivers the re-publish timer is armed.
PublishResponse(r) ==
    /\ opc[r] \in {"publish1", "publish2"}
    /\ Deliver(r, ResponsePayload(ResponseOfCall(r).status, ResponseOfCall(r).body, TRUE))
    /\ pubLog' = Upd(pubLog, r, Append(pubLog[r], LogEntry(r, ResponseOfCall(r), "publish")))
    /\ repub' = Upd(repub, r, IF RepublishNeeded(ResponseReceivers(r)) THEN "armed" ELSE repub[r])
    /\ opc' = Upd(opc, r, "done")
    /\ PublisherObtained("A")
    /\ UNCHANGED <<envVars, tool, redis, elapsed, stray, tracker, sessionKeys, subscriberKey, reqSub, respSub, getVars, streamEnded, hres,
                   relayVars, faults>>

\* The re-publish timer fires: the same payload is published once more.
RePublish(r) ==
    LET last == pubLog[r][Len(pubLog[r])].resp
    IN  /\ repub[r] \in {"armed", "armedFirst"}
        /\ Deliver(r, ResponsePayload(last.status, last.body, TRUE))
        /\ pubLog' = Upd(pubLog, r, Append(pubLog[r], LogEntry(r, last, "republish")))
        /\ repub' = Upd(repub, r, "fired")
        /\ UNCHANGED <<auxVars, sessionKeys, subscriberKey, reqSub, respSub, getVars,
                       opc, streamEnded, hres, relayVars, faults>>

\* publishResponse, try block: the publisher client or its PUBLISH rejects (the
\* command did not reach the broker); the catch block drops publisherClient,
\* and with it the only reference to a client that is not closed.
PublishRejected(r) ==
    /\ opc[r] \in {"publish1", "publish2"}
    /\ faults < MaxFaults
    /\ faults' = faults + 1
    /\ opc' = Upd(opc, r, IF opc[r] = "publish1" THEN "emergency1" ELSE "emergency2")
    /\ \E created \in {b \in BOOLEAN : b => ~publisherClient["A"]} :
          IF created THEN PublisherCreated("A", FALSE)
          ELSE /\ publisherClient' = [publisherClient EXCEPT !["A"] = FALSE]
               /\ UNCHANGED publishers
    /\ UNCHANGED <<envVars, tool, redis, elapsed, stray, tracker, brokerVars, getVars, streamEnded, hres, repub, pubLog, relayVars>>

\* publishResponse, catch block: PUBLISH of {status, body} on a new client.
EmergencyPublish(r) ==
    /\ opc[r] \in {"emergency1", "emergency2"}
    /\ Deliver(r, ResponsePayload(ResponseOfCall(r).status, ResponseOfCall(r).body, FALSE))
    /\ pubLog' = Upd(pubLog, r, Append(pubLog[r], LogEntry(r, ResponseOfCall(r), "emergency")))
    /\ opc' = Upd(opc, r, "done")
    /\ PublisherObtained("A")
    /\ UNCHANGED <<envVars, tool, redis, elapsed, stray, tracker, sessionKeys, subscriberKey, reqSub, respSub, getVars, streamEnded, hres,
                   repub, relayVars, faults>>

\* publishResponse, catch block: the emergency publish rejects too and the
\* first error is thrown.  From the callback's try block it lands in the
\* callback's catch, which calls publishResponse with 500; from there it is
\* logged.
EmergencyRejected(r) ==
    /\ opc[r] \in {"emergency1", "emergency2"}
    /\ faults < MaxFaults
    /\ faults' = faults + 1
    /\ opc' = Upd(opc, r, IF opc[r] = "emergency1" THEN "publish2" ELSE "failed")
    /\ \E created \in BOOLEAN : PublishFailed("A", created)
    /\ UNCHANGED <<envVars, tool, redis, elapsed, stray, tracker, brokerVars, getVars, streamEnded, hres, repub, pubLog, relayVars>>

\* queueMessage rejects (the publisher did not connect, or its PUBLISH was
\* rejected): the error is rethrown into the POST handler's catch.
QueueMessageRejected(r) ==
    /\ rpc[r] = "queue"
    /\ JSONparse(rin[r].body).ok
    /\ faults < MaxFaults
    /\ faults' = faults + 1
    /\ \E created \in {b \in BOOLEAN : b => ~publisherClient[rin[r].inst]} :
          PublishFailed(rin[r].inst, created)
    /\ written' = Upd(written, r, Resp(500, ErrorJson("publish failed")))
    /\ wby' = Upd(wby, r, "catch")
    /\ rpc' = Upd(rpc, r, "done")
    /\ UNCHANGED <<envVars, tool, redis, elapsed, stray, tracker, brokerVars, getVars, ownerVars, rin, timer, cbUnsub, reqPub,
                   unhandled, checks>>

\* subscribeToResponse rejects (SUBSCRIBE did not reach the broker): the error
\* is rethrown into the POST handler's catch.  The request is published.
ResponseSubscribeRejected(r) ==
    /\ rpc[r] = "subscribe"
    /\ faults < MaxFaults
    /\ faults' = faults + 1
    /\ written' = Upd(written, r, Resp(500, ErrorJson("subscribe failed")))
    /\ wby' = Upd(wby, r, "catch")
    /\ rpc' = Upd(rpc, r, "done")
    /\ UNCHANGED <<auxVars, brokerVars, getVars, ownerVars, rin, timer, cbUnsub, reqPub,
                   unhandled, checks>>

\* The timeout handler's await unsubscribe() rejects: UNSUBSCRIBE was rejected
\* and the closure rethrows.  The async timer callback ends before its
\* res.status(408); nothing awaits it, and the subscription stays.
TimeoutUnsubscribeRejected(r) ==
    /\ rpc[r] = "timeoutUnsub"
    /\ ~UnsubscribeSkipped(subscriberReady[rin[r].inst])
    /\ faults < MaxFaults
    /\ faults' = faults + 1
    /\ cbUnsub' = Upd(cbUnsub, r, "rejected")
    /\ unhandled' = Upd(unhandled, r, TRUE)
    /\ rpc' = Upd(rpc, r, "done")
    /\ UNCHANGED <<auxVars, brokerVars, getVars, ownerVars, rin, written, timer, reqPub, wby,
                   checks>>

\* --------------------------------------------- messages of other publishers

MaxStray == 2

\* Message texts on which JSON.parse throws.
NotJson == {raw \in RawBodies : ~JSONparse(raw).ok}

\* Another publisher's PUBLISH on requests:<id> reaches the owner's
\* subscriber connection.
StrayRequest(raw) ==
    /\ reqSub
    /\ stray.sent < MaxStray
    /\ stray' = [stray EXCEPT !.requests = Append(@, raw), !.sent = @ + 1]
    /\ UNCHANGED <<envVars, clientVars, tool, redis, elapsed, tracker, brokerVars, getVars, ownerVars, relayVars,
                   faults>>

\* Another publisher's PUBLISH on responses:<id>:<requestId> reaches the
\* relay's subscriber connection.
StrayResponse(r, raw) ==
    /\ respSub[r]
    /\ stray.sent < MaxStray
    /\ stray' = [stray EXCEPT !.responses = Append(@, raw), !.sent = @ + 1]
    /\ UNCHANGED <<envVars, clientVars, tool, redis, elapsed, tracker, brokerVars, getVars, ownerVars, relayVars,
                   faults>>

ListenerCallsCallbackAlways(raw) == TRUE

\* try { parsed = JSON.parse(message); callback(parsed) } catch { log }: the
\* callback is called when JSON.parse returned.
ListenerCallsCallback(raw) == JSONparse(raw).ok

\* What a listener dropped: the channel, and whether the message of the
\* exchange on that channel was still to come (the request not yet handed to
\* the owner's callback, the response not yet written to the caller).
Dispatched(channel, raw, r) ==
    [channel |-> channel,
     early |-> IF channel = "requests" THEN opc[r] \in {"none", "delivered"}
               ELSE written[r] = NoResp]

\* The listener of requests:<id> runs for a message of another publisher.
\* JSON.parse throws into the listener's catch, which logs; the listener
\* stays registered.
StrayRequestDispatch(r) ==
    /\ reqSub
    /\ stray.requests # <<>>
    /\ stray' = [stray EXCEPT
          !.requests = Tail(@),
          !.called = IF ListenerCallsCallback(Head(stray.requests))
                     THEN @ \cup {"requests"} ELSE @,
          !.dropped = IF ListenerCallsCallback(Head(stray.requests))
                      THEN @ ELSE @ \cup {Dispatched("requests", Head(stray.requests), r)}]
    /\ UNCHANGED <<envVars, clientVars, tool, redis, elapsed, tracker, brokerVars, getVars, ownerVars, relayVars,
                   faults>>

\* The listener of responses:<id>:<requestId> runs for a message of another
\* publisher: the same try/catch.
StrayResponseDispatch(r) ==
    /\ respSub[r]
    /\ stray.responses # <<>>
    /\ stray' = [stray EXCEPT
          !.responses = Tail(@),
          !.called = IF ListenerCallsCallback(Head(stray.responses))
                     THEN @ \cup {"responses"} ELSE @,
          !.dropped = IF ListenerCallsCallback(Head(stray.responses))
                      THEN @ ELSE @ \cup {Dispatched("responses", Head(stray.responses), r)}]
    /\ UNCHANGED <<envVars, clientVars, tool, redis, elapsed, tracker, brokerVars, getVars, ownerVars, relayVars,
                   faults>>

\* ------------------------------------------------------------ view tracking

\* if (repoData.owner && repoData.repo && env?.VIEW_COUNTER)
TrackingWanted(repoData, binding) ==
    repoData.owner # NoName /\ repoData.repo # NoName /\ binding = "present"

\* getViewCounterStub: the stub, or null when the lookup throws.
GetViewCounterStub(lookup) == IF lookup = "throws" THEN "null" ELSE "stub"

\* incrementRepoViewCount up to its first await: 0 without the binding or
\* without a stub, else the fetch is under way.
IncrementBegins(binding, lookup) ==
    IF binding = "missing" THEN Resolved(0)
    ELSE IF GetViewCounterStub(lookup) = "null" THEN Resolved(0)
    ELSE Fetching

FetchResultUncaught(fetch) ==
    CASE fetch.kind = "ok" -> Resolved(fetch.count)
      [] fetch.kind \in {"rejects", "aborted"} -> Rejected
      [] OTHER -> Resolved(0)

\* incrementRepoViewCount after the fetch: data.count of an ok response; 0 for
\* a response that is not ok and for whatever the inner catch catches.
FetchResult(fetch) ==
    IF fetch.kind = "ok" THEN Resolved(fetch.count) ELSE Resolved(0)

\* The wrapped callback is called.
WrapperCall(binding, repoData, ctx, lookup, fetch, original) ==
    /\ tool.pc = "idle"
    /\ tool' = [NoTool EXCEPT !.pc = IF TrackingWanted(repoData, binding)
                                      THEN "track" ELSE "original",
                              !.binding = binding, !.repoData = repoData, !.ctx = ctx,
                              !.lookup = lookup, !.fetch = fetch, !.original = original]
    /\ UNCHANGED relayAll

\* const incrementPromise = incrementRepoViewCount(env, owner, repo)
Track ==
    /\ tool.pc = "track"
    /\ tool' = [tool EXCEPT !.pc = "waitUntil",
                            !.inc = IncrementBegins(tool.binding, tool.lookup)]
    /\ UNCHANGED relayAll

\* ctx.waitUntil(incrementPromise.catch(...)) or incrementPromise.catch(...);
\* a waitUntil that throws is caught by the wrapper's try.
WaitUntil ==
    /\ tool.pc = "waitUntil"
    /\ tool' = [tool EXCEPT !.pc = "original", !.waited = (tool.ctx = "waitUntil")]
    /\ UNCHANGED relayAll

\* return originalCallback(args)
CallOriginal ==
    /\ tool.pc = "original"
    /\ tool' = [tool EXCEPT !.pc = "pending", !.calls = @ + 1]
    /\ UNCHANGED relayAll

\* The original callback's promise settles, and with it the wrapper's.
OriginalSettles ==
    /\ tool.pc = "pending"
    /\ tool' = [tool EXCEPT !.pc = "settled", !.result = tool.original]
    /\ UNCHANGED relayAll

\* stub.fetch settles (or is aborted by the timeout) and the increment
\* promise with it, at any point of the wrapper or after it.
FetchSettles ==
    /\ tool.inc.state = "fetching"
    /\ tool' = [tool EXCEPT !.inc = FetchResult(tool.fetch)]
    /\ UNCHANGED relayAll

\* incrementRepoViewCount called on its own (it is exported).
DirectIncrement(binding, lookup, fetch) ==
    /\ tool.pc = "idle"
    /\ tool' = [NoTool EXCEPT !.pc = "direct", !.binding = binding, !.lookup = lookup,
                              !.fetch = fetch,
                              !.inc = IncrementBegins(binding, lookup)]
    /\ UNCHANGED relayAll

\* ------------------------------------------------------------ specifications

GetStep ==
    \/ GetConnect
    \/ StoreSession
    \/ SessionIncrement
    \/ SessionSubscribe
    \/ SessionSubscribed
    \/ ClientHangup
    \/ SessionUnsubscribe
    \/ DecrementDecr
    \/ DecrementDel
    \/ CloseHandlerEnd

\* The POST handler past the local table: the broker path.
BrokerPath(r) ==
    \/ CheckSession(r)
    \/ CheckLiveness(r)
    \/ QueueMessage(r)
    \/ ResponseSubscribe(r)
    \/ ResponseSubscribed(r)
    \/ ResponseCallback(r)
    \/ CallbackUnsubscribed(r)
    \/ ResponseTimeout(r)
    \/ TimeoutRespond(r)

RelayStep(r) ==
    \/ \E sid \in SessionIds, inst \in Instances, body \in RawBodies :
          PostArrive(r, sid, inst, body)
    \/ \E out \in HandlerOutcomes : LocalHandle(r, out)
    \/ BrokerPath(r)

\* A POST with a JSON body for the owner's session, arriving on the other
\* instance: the call that is relayed over the broker.
RelayedCall(r) ==
    \/ PostArrive(r, OwnSession, "B", "{\"op\":\"ping\"}")
    \/ BrokerPath(r)

OwnerStep(r) ==
    \/ OwnerReceive(r)
    \/ \E out \in HandlerOutcomes : HandlerDone(r, out)
    \/ PublishResponse(r)
    \/ RePublish(r)

FaultStep ==
    \/ StoreSessionRejected
    \/ IncrementRejected
    \/ SessionSubscribeRejected
    \/ SessionUnsubscribeRejected
    \/ \E r \in Reqs : PublishRejected(r)
    \/ \E r \in Reqs : EmergencyRejected(r)
    \/ \E r \in Reqs : QueueMessageRejected(r)
    \/ \E r \in Reqs : ResponseSubscribeRejected(r)

EmergencyStep == \E r \in Reqs : EmergencyPublish(r)

Next ==
    \/ GetStep
    \/ \E r \in Active : RelayStep(r)
    \/ \E r \in Active : OwnerStep(r)

\* Two exchanges at once.
NextPair ==
    \/ GetStep
    \/ \E r \in Pair : RelayedCall(r)
    \/ \E r \in Pair : OwnerStep(r)

\* The first call is the one the faults are injected into.
NextFault ==
    \/ GetStep
    \/ RelayStep(1)
    \/ OwnerStep(1)
    \/ FaultStep
    \/ EmergencyStep

NextView ==
    \/ \E binding \in Bindings, repoData \in RepoData, ctx \in Contexts,
          lookup \in StubLookups, fetch \in FetchOutcomes, original \in OriginalOutcomes :
          WrapperCall(binding, repoData, ctx, lookup, fetch, original)
    \/ Track
    \/ WaitUntil
    \/ CallOriginal
    \/ OriginalSettles
    \/ FetchSettles
    \/ \E binding \in Bindings, lookup \in StubLookups, fetch \in FetchOutcomes :
          DirectIncrement(binding, lookup, fetch)

\* One call of a wrapped tool callback, or of incrementRepoViewCount.
SpecView == Init /\ [][NextView]_vars

\* Rejected registry commands of the liveness tracker.
TrackerFaultStep ==
    \/ IncrementRejected
    \/ ExpireRejected
    \/ DecrementRejected
    \/ LivenessRejected(1)

NextTracker ==
    \/ GetStep
    \/ RelayStep(1)
    \/ OwnerStep(1)
    \/ TrackerFaultStep

\* The program with up to MaxFaults rejected commands of the tracker.
SpecTracker == Init /\ [][NextTracker]_vars

\* Rejected broker commands of the POST handler.
RelayFaultStep ==
    \/ QueueMessageRejected(1)
    \/ ResponseSubscribeRejected(1)
    \/ TimeoutUnsubscribeRejected(1)

NextRelayFault ==
    \/ GetStep
    \/ RelayStep(1)
    \/ OwnerStep(1)
    \/ RelayFaultStep

\* The program with up to MaxFaults rejected commands of the POST handler.
SpecRelayFault == Init /\ [][NextRelayFault]_vars

\* Messages that are not JSON, published on the session's channels by others.
StrayStep ==
    \/ \E raw \in NotJson : StrayRequest(raw)
    \/ \E raw \in NotJson : StrayResponse(1, raw)
    \/ StrayRequestDispatch(1)
    \/ StrayResponseDispatch(1)

NextStray ==
    \/ GetStep
    \/ RelayedCall(1)
    \/ OwnerStep(1)
    \/ StrayStep

\* The program over a healthy broker whose channels carry up to MaxStray
\* messages that are not JSON.
SpecStray == Init /\ [][NextStray]_vars

NextDuration ==
    \/ GetStep
    \/ Elapse
    \/ MaxDurationElapsed
    \/ RequestClosedAfterEnd

\* One push connection over a healthy broker with the seconds it lasts.
SpecDuration == Init /\ [][NextDuration]_vars

NextClients ==
    \/ \E c \in Callers, k \in Kinds : GetClient(c, k)
    \/ \E k \in Kinds : ConnectResolved(k)
    \/ \E c \in Callers, second \in SecondConnect : UseClient(c, second)

\* Operations of one process that get the module's clients at the same time.
SpecClients == Init /\ [][NextClients]_vars

\* The program over a healthy broker.
Spec == Init /\ [][Next]_vars

\* The program with up to MaxFaults rejected broker commands.
SpecFault == Init /\ [][NextFault]_vars

\* The program over a healthy broker, where every step of the owner's
\* callback that can be taken is taken in the end.
SpecLive == Spec /\ \A r \in Active : WF_vars(OwnerStep(r))

\* The program over a healthy broker with two concurrent exchanges.
SpecPair == Init /\ [][NextPair]_vars

CloseStep ==
    \/ ClientHangupEarly
    \/ MaxDurationReached
    \/ RequestClosedAfterEnd

\* The steps of the GET handler and its close handler that the event loop
\* takes on its own: all but the client's hang-up.
GetProgress ==
    \/ GetConnect
    \/ StoreSession
    \/ SessionIncrement
    \/ SessionSubscribe
    \/ SessionSubscribed
    \/ MaxDurationReached
    \/ RequestClosedAfterEnd
    \/ SessionUnsubscribe
    \/ DecrementDecr
    \/ DecrementDel
    \/ CloseHandlerEnd

CallerStep(r) ==
    \/ CallerHangup(r)
    \/ CloseUnsubscribed(r)

NextClose ==
    \/ GetStep
    \/ CloseStep
    \/ RelayStep(1)
    \/ OwnerStep(1)
    \/ CallerStep(1)

\* The program over a healthy broker with the ways a connection ends: the
\* client leaves at any point, or the max-duration timer fires.  What the
\* event loop can run, it runs in the end.
SpecClose ==
    /\ Init
    /\ [][NextClose]_vars
    /\ WF_vars(GetProgress)
    /\ WF_vars(OwnerStep(1))

UnsubStep ==
    \/ \E inst \in Instances : SubscriberDisconnects(inst)
    \/ SessionUnsubscribeNotReady
    \/ TimeoutUnsubscribeNotReady(1)
    \/ UnsubscribeAgain

NextUnsub ==
    \/ GetStep
    \/ RelayStep(1)
    \/ OwnerStep(1)
    \/ UnsubStep

\* The program over a broker whose subscriber connections may go away, with
\* the session's unsubscribe function called a second time.
SpecUnsub == Init /\ [][NextUnsub]_vars

NextTime ==
    \/ GetStep
    \/ RelayStep(1)
    \/ OwnerStep(1)
    \/ Tick

\* The program over a healthy broker as time passes and keys expire.
SpecTime == Init /\ [][NextTime]_vars

\* ------------------------------------------------------------------ claims

C2_SubscribeBeforePublish ==
    \A r \in Reqs : reqPub[r].done => reqPub[r].subscribed

\* C3: a call whose response was published before the relay's subscription
\* was active does not end in 408.
C3_EarlyResponseStillReceived ==
    \A r \in Reqs :
        (\E i \in 1..Len(pubLog[r]) : pubLog[r][i].relay = "subscribe")
            => wby[r] # "timeout"

\* C4: a POST without sessionId, or with a sessionId that sessionExists does
\* not know, is answered with 400; nothing is published, no response
\* subscription exists and no timer is armed.
C4_UnknownSessionRejected ==
    \A r \in Reqs :
        (rpc[r] # "idle" /\ (rin[r].sid = NoSid \/ checks[r].exists = "no"))
            => /\ rpc[r] = "done"
               /\ written[r].status = 400
               /\ ~reqPub[r].done
               /\ opc[r] = "none"
               /\ pubLog[r] = <<>>
               /\ ~respSub[r]
               /\ timer[r] = "unarmed"

C4_Witness ==
    \E r \in Reqs : checks[r].exists = "no" /\ written[r].status = 400

\* C5: when getActiveSubscribers returns 0 for a session that exists, the
\* POST is answered with 503 at once: no publish, no response subscription,
\* no timer, and never a 408.
C5_NoSubscribersRejected ==
    \A r \in Reqs :
        checks[r].subscribers = 0
            => /\ checks[r].exists = "yes"
               /\ rpc[r] = "done"
               /\ written[r].status = 503
               /\ ~reqPub[r].done
               /\ opc[r] = "none"
               /\ pubLog[r] = <<>>
               /\ ~respSub[r]
               /\ timer[r] = "unarmed"

C5_Witness ==
    \E r \in Reqs : checks[r].subscribers = 0 /\ written[r].status = 503

C6_TimedOut(r) ==
    /\ (rpc[r] = "done" /\ timer[r] = "fired" /\ wby[r] # "callback")
           => wby[r] = "timeout"
    /\ wby[r] = "timeout"
           => /\ written[r].status = 408
              /\ ~respSub[r]
              /\ respInflight[r] = <<>>

C6_LateResponse(r) ==
    wby[r] = "timeout"
        => /\ written'[r] = written[r]
           /\ pubLog'[r] # pubLog[r] => pubLog'[r][Len(pubLog'[r])].receivers = 0

\* C6: when the 10 s timer fires and no response has arrived, the caller
\* gets 408 and the relay is unsubscribed; a response published after that
\* reaches 0 receivers and the caller's response stays the 408.
C6_TimeoutThenLateResponseDropped ==
    /\ [](\A r \in Reqs : C6_TimedOut(r))
    /\ [][\A r \in Reqs : C6_LateResponse(r)]_vars

C6_Witness ==
    \E r \in Reqs :
        /\ wby[r] = "timeout"
        /\ written[r].status = 408
        /\ \E i \in 1..Len(pubLog[r]) :
              pubLog[r][i].relay = "done" /\ pubLog[r][i].receivers = 0

\* C7: every request the owner receives on the request channel leads to a
\* response published on its response channel, whatever its body.
C7_ResponseAlwaysPublished ==
    \A r \in Reqs : (opc[r] = "delivered") ~> (pubLog[r] # <<>>)

\* C8, as claimed: the owner publishes at most one response per request.
C8_AtMostOnePublish ==
    \A r \in Reqs : Len(pubLog[r]) <= 1

\* C8, amended: the owner publishes at most two responses per request, the
\* second one only as the re-publish of a first one that reached 0 receivers;
\* so at most one published response reaches a receiver.
C8_AtMostOneReceived ==
    \A r \in Reqs :
        /\ Len(pubLog[r]) <= 2
        /\ Len(pubLog[r]) = 2
               => /\ pubLog[r][1].receivers = 0
                  /\ pubLog[r][2].kind = "republish"
        /\ Cardinality({i \in 1..Len(pubLog[r]) : pubLog[r][i].receivers > 0}) <= 1

C8_Witness ==
    \E r \in Reqs :
        /\ Len(pubLog[r]) = 2
        /\ hres[r].kind = "return"
        /\ pubLog[r][1].resp = Resp(500, ErrorJson("publish failed"))
        /\ pubLog[r][2].receivers = 1

\* C9: of the response callback and the timeout handler exactly one wins:
\* the caller is written one response at most and, once it is written, the
\* timer is cleared or has fired and the subscription is removed or being
\* removed.
C9_ExactlyOneWins ==
    \A r \in Reqs :
        wby[r] \in {"callback", "timeout"}
            => /\ timer[r] \in {"cleared", "fired"}
               /\ respSub[r] => (cbUnsub[r] = "pending" \/ rpc[r] = "timeoutUnsub")

\* C10: after a client hang-up the close handler has ended with the session
\* gone from local tracking and the counter decremented exactly once, also
\* when the broker unsubscribe was rejected; the subscription is removed when
\* it was not; nothing is thrown out of the close handler.
C10_HangupCleansUp ==
    gpc = "closed"
        => /\ decrCalls = 1
           /\ subscriberKey = <<>>
           /\ OwnSession \notin activeSubscriptionSessions
           /\ OwnSession \notin activeTransports
           /\ unsubResult = "resolved" => ~reqSub
           /\ ~closeThrew

C10_Witness ==
    gpc = "closed" /\ unsubResult = "rejected" /\ decrCalls = 1

\* C11: when the max-duration timer fires with the client still connected,
\* the close handler runs in the end: the owner is unsubscribed from
\* requests:<id>, the local entries are gone and the count, decremented once,
\* is what it was before the connection opened (the key is absent).
C11_MaxDurationCleansUp ==
    (closeReason = "max duration reached" /\ gpc = "ended" /\ ~reqClosed)
        ~> (/\ gpc = "closed"
            /\ ~reqSub
            /\ subscriberKey = <<>>
            /\ decrCalls = 1
            /\ OwnSession \notin activeSubscriptionSessions
            /\ OwnSession \notin activeTransports)

C11_Witness ==
    /\ closeReason = "max duration reached"
    /\ gpc = "closed"
    /\ ~reqSub
    /\ subscriberKey = <<>>
    /\ decrCalls = 1

\* C12: once the client of the push connection is gone, at whatever point of
\* the GET flow it left, the subscription on requests:<id>, the count and the
\* local entries are removed in the end.
C12_DisconnectAlwaysCleansUp ==
    reqClosed ~> (/\ ~reqSub
                  /\ subscriberKey = <<>>
                  /\ OwnSession \notin activeSubscriptionSessions
                  /\ OwnSession \notin activeTransports)

\* C13: when the caller of a relayed POST has disconnected before a response
\* was written, at whatever point of the POST flow, neither the 408 nor the
\* handler's response is written afterwards and the timer does not fire.
C13_CallerDisconnectCancels ==
    \A r \in Reqs :
        callerLeft[r] # "no"
            => /\ wby[r] \notin {"callback", "timeout"}
               /\ timer[r] # "fired"

\* The count a process reads for the session: getActiveSubscribers' result.
C14_CountReadOn(inst) ==
    ActiveSubscribersResult(subscriberKey, LocalSubscription(inst, OwnSession))

\* C14: while the owner holds an active subscription on requests:<id>,
\* getActiveSubscribers read from any instance is at least 1.
C14_SubscribedImpliesCounted ==
    reqSub => \A inst \in Instances : C14_CountReadOn(inst) >= 1

C15_StoredCount == IF subscriberKey = <<>> THEN 0 ELSE subscriberKey[1]

C15_Subscriptions == IF reqSub THEN 1 ELSE 0

\* C15: with no increment and no unsubscribe in flight, the stored count is
\* the number of active subscriptions on requests:<id>.
C15_CountIsSubscriptions ==
    gpc \in {"new", "store", "open", "ended", "closed", "failed"}
        => C15_StoredCount = C15_Subscriptions

\* C16: the stored count and the value getActiveSubscribers returns are never
\* negative, the state between the DECR and the DEL of a decrement included.
C16_CountNeverNegative ==
    /\ subscriberKey # <<>> => subscriberKey[1] >= 0
    /\ \A inst \in Instances : C14_CountReadOn(inst) >= 0

\* C17: a second call of the session's unsubscribe function does not throw,
\* does not drive the stored count below 0, and leaves the subscription, the
\* local tracking set and the stored count as the first call left them.
C17_SecondUnsubscribeIdempotent ==
    afterFirst # NoSnapshot
        => /\ unsubResult # "rejected"
           /\ subscriberKey # <<>> => subscriberKey[1] >= 0
           /\ gpc \in {"closing", "closed"}
                  => <<subscriberKey, reqSub, activeSubscriptionSessions>> = afterFirst

\* C18: with the subscriber client not ready, the unsubscribe functions of
\* subscribeToSessionMessages and of subscribeToResponse do not throw; the
\* session's one still removes the session from local tracking and calls the
\* decrement, which leaves no count behind.
C18_NotReadyUnsubscribeResolves ==
    /\ unsubResult # "rejected"
    /\ \A r \in Reqs : cbUnsub[r] # "rejected"
    /\ unsubResult = "skipped"
           => /\ OwnSession \notin activeSubscriptionSessions
              /\ decrCalls >= 1
              /\ gpc \in {"closing", "closed"} => subscriberKey = <<>>

C18_Witness ==
    /\ unsubResult = "skipped"
    /\ gpc = "closed"
    /\ decrCalls = 1
    /\ \E r \in Reqs : cbUnsub[r] = "skipped"

\* What a getActiveSubscribers call of request r does, by the three cases of
\* the counter key and the local subscription.
C19_Call(r) ==
    LET local == LocalSubscription(rin[r].inst, rin[r].sid)
    IN  (rpc[r] = "liveness" /\ rpc'[r] # "liveness")
            => /\ (subscriberKey = <<>> /\ ~local)
                      => /\ checks'[r].subscribers = 0
                         /\ UNCHANGED <<subscriberKey, subscriberExpiry>>
               /\ (subscriberKey = <<>> /\ local)
                      => /\ checks'[r].subscribers = 1
                         /\ subscriberKey' = <<1>>
                         /\ subscriberExpiry' = now + SESSION_TTL
               /\ subscriberKey # <<>>
                      => /\ checks'[r].subscribers = subscriberKey[1]
                         /\ UNCHANGED <<subscriberKey, subscriberExpiry>>

\* C19: getActiveSubscribers with the counter key absent returns 0 and writes
\* nothing when the process has no local subscription; with a local
\* subscription it returns 1 and writes count = 1 with the session TTL; with
\* the key present it returns the stored count and writes nothing.
C19_GetActiveSubscribers == [][\A r \in Reqs : C19_Call(r)]_vars

C19_Witness ==
    \E r \in Reqs :
        /\ checks[r].healed
        /\ checks[r].subscribers = 1
        /\ subscriberKey = <<1>>
        /\ subscriberExpiry = SESSION_TTL

C20_Expiry ==
    /\ Expired(sessionExpiry, now) => ~SessionExistsResult(OwnSession)
    /\ SessionExistsResult(OwnSession) => sessionExpiry # NoExpiry

C20_Step ==
    /\ sessionExpiry' # sessionExpiry
           => gpc = "store" /\ sessionExpiry' = now + SESSION_TTL
    /\ \A r \in Reqs :
           (Expired(sessionExpiry, now) /\ rpc[r] = "exists" /\ rpc'[r] # "exists")
               => written'[r].status = 400

\* C20: sessionExists is false from 30 minutes after storeSession on, with no
\* delete; only storeSession sets the expiry, so a POST delivered for the
\* session does not extend it, and a POST that comes later is answered 400.
C20_SessionExpires == [](C20_Expiry) /\ [][C20_Step]_vars

C20_Witness ==
    /\ Expired(sessionExpiry, now)
    /\ ~SessionExistsResult(OwnSession)
    /\ \E r \in Reqs : reqPub[r].done /\ reqPub[r].receivers = 1

\* The registry write of the push connection was rejected: the handler is
\* past storeSession and the key was never written.
C21_StoreFailed == gpc \notin {"new", "store"} /\ OwnSession \notin sessionKeys

\* C21: a rejected registry write is swallowed.  With no other command
\* rejected, the GET handler does not fail; once it has subscribed, the owner
\* holds the subscription, the local entries and a count of 1 for as long as
\* the connection is open.
C21_StoreFailureSwallowed ==
    (C21_StoreFailed /\ faults = 1)
        => /\ gpc # "failed"
           /\ gpc \in {"subAck", "open", "unsub"}
                  => /\ reqSub
                     /\ subscriberKey = <<1>>
                     /\ OwnSession \in activeSubscriptionSessions

C21_Witness ==
    /\ C21_StoreFailed
    /\ faults = 1
    /\ gpc = "open"
    /\ reqSub
    /\ subscriberKey = <<1>>

\* C22: with the registry write rejected and the owner subscribed, a POST for
\* the session that is checked on another instance is taken on to the
\* liveness check and the broker, not answered at once.
C22_Relayed(r) ==
    (/\ C21_StoreFailed
     /\ reqSub
     /\ rin[r].inst = "B"
     /\ rin[r].sid = OwnSession
     /\ rpc[r] = "exists"
     /\ rpc'[r] # "exists")
        => rpc'[r] = "liveness" /\ written'[r] = NoResp

C22_RelayedAfterStoreFailure == [][\A r \in Reqs : C22_Relayed(r)]_vars

\* C25: with two exchanges on the session at once, every response handed to
\* a relay's callback was published for that relay's own request, and what a
\* callback wrote to its caller is a response the owner published for that
\* request.
C25_OwnResponseOnly ==
    \A q \in Reqs :
        /\ \A i \in DOMAIN respInflight[q] : respInflight[q][i].rid = q
        /\ wby[q] = "callback"
              => \E i \in DOMAIN pubLog[q] : pubLog[q][i].resp = written[q]

\* The first relay has written its response while a different response is on
\* its way to the second relay, both published while both were subscribed.
C25_Witness ==
    /\ wby[1] = "callback"
    /\ respInflight[2] # <<>>
    /\ ParseResponse(respInflight[2][1].message) # written[1]
    /\ pubLog[1][1].receivers = 1
    /\ pubLog[2][1].receivers = 1
    /\ respSub[1]

\* C28: when the handler throws, the owner's callback does not fail: what it
\* publishes first is status 500 with the JSON object {"error": message}, the
\* session's subscription is as the connection left it, and a request
\* delivered to the owner is still received.
C28_HandlerThrowPublished ==
    \A r \in Reqs :
        hres[r].kind = "throw"
            => /\ opc[r] # "failed"
               /\ pubLog[r] # <<>>
                     => pubLog[r][1].resp = Resp(500, "{\"error\":\"boom\"}")
               /\ gpc = "open" => reqSub
               /\ \A q \in Reqs \ {r} :
                     opc[q] = "delivered" => ENABLED OwnerReceive(q)

\* The first request's handler threw and its caller got the 500; the second
\* request was answered with its handler's 202 over the same subscription.
C28_Witness ==
    /\ hres[1].kind = "throw"
    /\ wby[1] = "callback"
    /\ written[1] = Resp(500, "{\"error\":\"boom\"}")
    /\ wby[2] = "callback"
    /\ written[2] = Resp(202, "Accepted")

\* C29: while the handler of one request has not finished, another request
\* delivered to the owner can be received, two handlers running at once can
\* finish in either order, and each relay's callback writes the response of
\* its own request's handler.
C29_NotSerialized ==
    \A r \in Pair : \A q \in Pair \ {r} :
        /\ (opc[r] \in {"handling", "publish1"} /\ opc[q] = "delivered")
              => ENABLED OwnerReceive(q)
        /\ (opc[r] = "handling" /\ opc[q] = "handling")
              => /\ ENABLED (\E out \in HandlerOutcomes : HandlerDone(q, out))
                 /\ ENABLED (\E out \in HandlerOutcomes : HandlerDone(r, out))
        /\ (wby[q] = "callback" /\ hres[q] # hres[r] /\ hres[r] # NoOutcome)
              => written[q] # CapturedResponse(hres[r])

\* The second request was received, handled and answered while the handler
\* of the first is still running.
C29_Witness ==
    /\ opc[1] = "handling"
    /\ wby[2] = "callback"
    /\ written[2] = CapturedResponse(hres[2])
    /\ respSub[1]
    /\ written[1] = NoResp

\* C23: a process never has more than one publisher client connected.
C23_OnePublisherPerProcess == \A i \in Instances : publishers[i] <= 1

\* C24: a POST is answered 500 for a failed publish or subscribe only after a
\* second attempt has failed as well, that is, after two rejected commands.
C24_RetriedOnceBeforeError ==
    \A r \in Reqs :
        (wby[r] = "catch" /\ JSONparse(rin[r].body).ok) => faults >= 2

\* The statement as made: once the close handler has run, sessionExists is
\* false.
C26_DeletedOnDisconnect == gpc = "closed" => ~SessionExistsResult(OwnSession)

C26_State ==
    (sessionExpiry # NoExpiry /\ now < sessionExpiry) => SessionExistsResult(OwnSession)

C26_Step ==
    /\ (SessionExistsResult(OwnSession) /\ ~SessionExistsResult(OwnSession)')
           => now' > now /\ now' >= sessionExpiry
    /\ \A r \in Reqs :
           (/\ gpc = "closed"
            /\ now < sessionExpiry
            /\ rin[r].sid = OwnSession
            /\ rpc[r] = "exists"
            /\ rpc'[r] # "exists")
               => rpc'[r] = "liveness" /\ written'[r] = NoResp

\* C26: the close of the push connection does not delete the session record.
\* The record is there until the TTL set by storeSession has elapsed, only
\* the passing of time removes it, and a POST checked after the close and
\* before the expiry is taken on to the liveness check.
C26_RecordOutlivesConnection == [](C26_State) /\ [][C26_Step]_vars

\* The connection is closed, time has passed, the record exists and a POST
\* for the session was answered 503.
C26_Witness ==
    /\ gpc = "closed"
    /\ now > 0
    /\ SessionExistsResult(OwnSession)
    /\ \E r \in Reqs : rin[r].sid = OwnSession /\ written[r].status = 503

\* A POST on the fast path has read neither the registry nor the counter,
\* has published nothing, and has no response subscription and no timer.
C30_State ==
    \A r \in Reqs :
        (rpc[r] = "local" \/ wby[r] = "local")
            => /\ checks[r] = NoChecks
               /\ ~reqPub[r].done
               /\ opc[r] = "none"
               /\ pubLog[r] = <<>>
               /\ ~respSub[r]
               /\ respInflight[r] = <<>>
               /\ timer[r] = "unarmed"

C30_Step ==
    \A r \in Reqs :
        /\ (/\ rpc[r] = "idle"
            /\ rpc'[r] # "idle"
            /\ rin'[r].inst = "A"
            /\ rin'[r].sid \in activeTransports)
               => rpc'[r] = "local"
        /\ (rpc[r] = "idle" /\ rpc'[r] = "exists")
               => ~(rin'[r].inst = "A" /\ rin'[r].sid \in activeTransports)
        /\ (rpc[r] = "local" /\ rpc'[r] # "local")
               => /\ wby'[r] = "local"
                  /\ rpc'[r] = "done"
                  /\ UNCHANGED <<brokerVars, clientVars, sessionExpiry, subscriberExpiry>>

\* C30: a POST for a session in the receiving instance's activeTransports is
\* handled by the local transport and only by it; a POST takes the broker
\* path only when the session is not in that table.
C30_LocalFirstAndOnly == [](C30_State) /\ [][C30_Step]_vars

C30_Witness ==
    \E r \in Reqs :
        /\ wby[r] = "local"
        /\ rin[r].inst = "A"
        /\ written[r] = Resp(202, "Accepted")
        /\ checks[r] = NoChecks
        /\ subscriberKey = <<1>>
        /\ publishers = [i \in Instances |-> 0]

\* The view counter failed in one of the ways the code provides for.
C27_CounterFailed ==
    \/ tool.binding = "missing"
    \/ tool.lookup = "throws"
    \/ tool.fetch.kind # "ok"

\* C27: the wrapper calls the original callback once and settles as it
\* settled, whatever the counter does; the promise of incrementRepoViewCount
\* never rejects and resolves with 0 when the counter failed.
C27_TrackingNeverAffectsTool ==
    /\ tool.calls <= 1
    /\ tool.pc \in {"pending", "settled"} => tool.calls = 1
    /\ tool.pc = "settled" => tool.result = tool.original
    /\ tool.pc = "original" => ENABLED CallOriginal
    /\ tool.inc.state # "rejected"
    /\ (tool.inc.state = "resolved" /\ C27_CounterFailed) => tool.inc.value = 0

\* The fetch of a tracked call was aborted by the timeout: the increment
\* resolved with 0 and the wrapper rejected with the original's error.
C27_Witness ==
    /\ tool.pc = "settled"
    /\ TrackingWanted(tool.repoData, tool.binding)
    /\ tool.fetch.kind = "aborted"
    /\ tool.inc = Resolved(0)
    /\ tool.calls = 1
    /\ tool.original.kind = "reject"
    /\ tool.result = tool.original

\* A request published while the owner was not subscribed is not handled and
\* not answered: the relay's caller gets nothing but the timeout's 408.
C34_State ==
    \A r \in Reqs :
        (reqPub[r].done /\ reqPub[r].receivers = 0)
            => /\ opc[r] = "none"
               /\ pubLog[r] = <<>>
               /\ respInflight[r] = <<>>
               /\ written[r] # NoResp
                     => wby[r] = "timeout" /\ written[r].status = 408

\* queueMessage publishes whatever the liveness check has read before, and
\* the POST handler goes on to subscribe whatever the publish returned.
C34_Step ==
    \A r \in Reqs :
        (rpc[r] = "queue" /\ JSONparse(rin[r].body).ok /\ rpc'[r] # "queue")
            => /\ rpc'[r] = "subscribe"
               /\ written'[r] = NoResp
               /\ ~reqSub => reqPub'[r].receivers = 0 /\ opc'[r] = "none"

\* C34: when the owner's subscription goes away between a relay's liveness
\* check and its publish, the request reaches no receiver and is lost, the
\* relay subscribes and waits all the same, and its caller gets 408, not 503.
C34_LostRequestTimesOut == [](C34_State) /\ [][C34_Step]_vars

C34_Witness ==
    \E r \in Reqs :
        /\ checks[r].subscribers > 0
        /\ reqPub[r].done
        /\ reqPub[r].receivers = 0
        /\ ~reqSub
        /\ wby[r] = "timeout"
        /\ written[r].status = 408

\* C35: outside a subscribe or unsubscribe call in flight, the session is in
\* activeSubscriptionSessions exactly when the instance is subscribed on
\* requests:<id>, and a failed subscribe has left no counter key behind.
C35_LocalEntryIffSubscribed ==
    /\ gpc \in {"new", "store", "open", "failed", "closed"}
          => ((OwnSession \in activeSubscriptionSessions) <=> reqSub)
    /\ (gpc = "failed" /\ ~reqSub) => subscriberKey = <<>>

\* C36: once the push connection has ended, by the close handler or by a
\* failed setup, the session is not in activeTransports, so that no POST
\* arriving from then on takes the fast path.
C36_TransportOnlyWhileOpen ==
    gpc \in {"failed", "closed"}
        => /\ OwnSession \notin activeTransports
           /\ ~LocalTransport("A", OwnSession)

\* The stages of decrementSubscriberCount.
C37_Decrementing == {"decr", "decrRethrow", "del", "delRethrow"}

C37_Step ==
    /\ (gpc = "increment" /\ gpc' # gpc)
          => /\ gpc' = "subscribe"
             /\ faults' > faults => tracker'.incr = <<-1>>
    /\ (gpc \in C37_Decrementing /\ gpc' \notin C37_Decrementing)
          => /\ gpc' \in {"closing", "rethrow"}
             /\ faults' > faults => tracker'.decr = <<-1>>
    /\ \A r \in Reqs :
          (rpc[r] = "liveness" /\ rpc'[r] # "liveness" /\ faults' > faults)
              => /\ checks'[r].subscribers =
                       IF rin[r].inst = "A" /\ rin[r].sid \in activeSubscriptionSessions
                       THEN 1 ELSE 0
                 /\ rpc'[r] = IF checks'[r].subscribers = 0 THEN "done" ELSE "queue"
                 /\ written'[r].status \in {0, 503}

\* C37: a rejected registry command in the tracker is not thrown on.  The
\* increment and the decrement return -1 and their callers go on (the session
\* is subscribed after a failed increment, the close handler ends after a
\* failed decrement); getActiveSubscribers returns 1 with a local
\* subscription and 0 without.
C37_TrackerNeverThrows ==
    /\ [][C37_Step]_vars
    /\ []((tracker.incr = <<-1>> /\ gpc = "open") => reqSub)

\* The increment and the decrement were both rejected: the session was
\* subscribed, served and closed all the same.
C37_Witness ==
    /\ tracker = [incr |-> <<-1>>, decr |-> <<-1>>]
    /\ gpc = "closed"
    /\ ~reqSub
    /\ OwnSession \notin activeSubscriptionSessions

\* C33: whenever the key mcp:subscribers:<id> exists it has an expiry, at
\* most the session TTL away.
C33_CounterKeyExpires ==
    subscriberKey # <<>>
        => /\ subscriberExpiry # NoExpiry
           /\ subscriberExpiry <= now + SESSION_TTL

\* C31: a relayed POST that passed validation and the liveness check and
\* whose handler has ended has written one response to its caller (the
\* owner's, 408 or 500), unless the caller disconnected; also when the
\* unsubscribe of the timeout handler fails.
C31_RelayedCallAnswered ==
    \A r \in Reqs :
        (rpc[r] = "done" /\ checks[r] # NoChecks /\ callerLeft[r] = "no")
            => written[r] # NoResp

\* A listener ran for a message that is not JSON.
C39_Dropped(channel) ==
    CASE channel = "requests"  -> Len(stray'.requests) < Len(stray.requests)
      [] channel = "responses" -> Len(stray'.responses) < Len(stray.responses)

C39_Step ==
    /\ C39_Dropped("requests") =>
          /\ reqSub' /\ activeSubscriptionSessions' = activeSubscriptionSessions
          /\ opc' = opc /\ hres' = hres /\ pubLog' = pubLog /\ repub' = repub
          /\ respInflight' = respInflight
          /\ gpc' = gpc /\ closeThrew' = closeThrew
    /\ C39_Dropped("responses") =>
          /\ respSub' = respSub /\ respSub[1]
          /\ written' = written /\ timer' = timer /\ cbUnsub' = cbUnsub /\ rpc' = rpc
          /\ unhandled' = unhandled

\* C39: a message that is not JSON on requests:<id> or on
\* responses:<id>:<requestId> is dropped by the listener: no callback is
\* called for it and nothing is thrown, the subscription stays, no response is
\* published for a dropped request, and the exchange goes on as without it.
C39_NonJsonDropped ==
    /\ [][C39_Step]_vars
    /\ [](stray.called = {})

\* Both listeners dropped a message while the exchange was under way, and the
\* owner's response, published later, was written to the caller.
C39_Witness ==
    /\ [channel |-> "requests", early |-> TRUE] \in stray.dropped
    /\ [channel |-> "responses", early |-> TRUE] \in stray.dropped
    /\ wby[1] = "callback"
    /\ written[1] = Resp(202, "Accepted")
    /\ pubLog[1] # <<>>

\* C32: counted from the start of the GET handler, the push connection has
\* ended itself after (maxDuration - 5) = 54 seconds, however long the
\* awaits before the timer took.
C32_EndsWithin54 ==
    (HandlerRunning \/ gpc = "ended") => elapsed.handler <= 54

\* C38: of operations that ask for a client of the module at the same time
\* while there is none, one creates the client and connects it once; none
\* calls connect() again and none fails.
C38_ConnectedOnce ==
    /\ \A k \in Kinds : redis.created[k] <= 1 /\ redis.connects[k] <= 1
    /\ \A c \in Callers : redis.pc[c] # "failed"

====
